---- MODULE Spec2Model ----
(***************************************************************************)
(* Model of the Gamma game engine (src/src/gamma.c): the board with its    *)
(* find-union forest, the per-player counters, gamma_move and              *)
(* gamma_golden_move with the whole-board re-index, and the query layer.   *)
(*                                                                         *)
(* The game structure is a record g; every C function that takes a         *)
(* gamma_t* is an operator that takes g and returns the new g (with the    *)
(* returned value where there is one).  A field pointer is the pair        *)
(* <<x, y>> of the field's column and row, NULL is the empty tuple.        *)
(* heap is the set of the blocks that are allocated and not yet freed.     *)
(* The counters are uint32/uint64 in the code; at the modelled board       *)
(* sizes no counter comes near its width, and a decrement below zero       *)
(* shows as a negative number here.  The one product of two uint32         *)
(* values, width * height in gamma_free_fields, is computed modulo 2^32    *)
(* on 16-bit halves.                                                       *)
(***************************************************************************)
EXTENDS Integers, Sequences, FiniteSets, TLC

\* Bounds of the model: gamma_new is called with 1..Max* for each parameter,
\* on boards of at most MaxCells fields.
MaxWidth == 3
MaxHeight == 2
MaxCells == 4
MaxPlayers == 2
MaxAreas == 2

\* Bounds of the games with sides near 2^16: the side, and the number of
\* rows and columns of the board, counted from field (0, 0), that are
\* represented.
WideSide == 65536
WindowSize == 4

\* uint8_t rank wraps at 2^8 (struct field).
RankModulus == 256

\* A uint32_t is the pair <<high, low>> of its 16-bit halves.
HalfWord == 65536

\* gamma_board asks for more room when fewer than min_buffer_size bytes of
\* the buffer are free.
min_buffer_size == 50

VARIABLES g, golden_count, heap

\* The program around the engine (gamma_main.c, batch_mode.c,
\* interactive_mode.c): where main is, what is left of the standard input,
\* the locals of main and of run_io_loop, what the last step wrote, and the
\* exit code.
VARIABLES pc, stdin, line, error, field_x, field_y, current_player,
          advance_player, error_message, out, exit_code

program == <<pc, stdin, line, error, field_x, field_y, current_player,
             advance_player, error_message, out, exit_code>>

vars == <<g, golden_count, heap, program>>

NULL == <<>>

\* The gamma_t* value NULL, as passed by a caller that has no game.
NullGame == [null |-> TRUE]

----------------------------------------------------------------------------
\* find-union

\* Faulty variant of fu_find: the parent of the field is returned, whether
\* or not it is a root.
fu_find_parent_only(board, field) ==
    [board |-> board, root |-> board[field[2]][field[1]].parent]

\* fu_find with path halving: every visited field is re-parented to its
\* grandparent and the walk continues from that grandparent.
RECURSIVE fu_find(_, _)
fu_find(board, field) ==
    LET parent == board[field[2]][field[1]].parent IN
    IF parent = field
    THEN [board |-> board, root |-> field]
    ELSE LET grandparent == board[parent[2]][parent[1]].parent
             halved == [board EXCEPT ![field[2]][field[1]].parent = grandparent]
         IN fu_find(halved, grandparent)

\* Faulty variant of fu_link: the rank grows but y_root keeps itself as
\* parent.
fu_link_rank_only(board, x_root, y_root) ==
    [board |-> [board EXCEPT
                   ![x_root[2]][x_root[1]].rank =
                       IF @ = board[y_root[2]][y_root[1]].rank
                       THEN (@ + 1) % RankModulus
                       ELSE @],
     ret |-> TRUE]

\* The linking step of fu_union, once the roots are ordered by rank: y_root
\* goes under x_root, whose rank grows when the two ranks are equal.
fu_link(board, x_root, y_root) ==
    [board |-> [board EXCEPT
                   ![y_root[2]][y_root[1]].parent = x_root,
                   ![x_root[2]][x_root[1]].rank =
                       IF @ = board[y_root[2]][y_root[1]].rank
                       THEN (@ + 1) % RankModulus
                       ELSE @],
     ret |-> TRUE]

\* Faulty variant of fu_union_roots: equal roots are reported as a merge.
fu_union_roots_reports_merge(board, x_root, y_root) ==
    IF x_root = y_root
    THEN [board |-> board, ret |-> TRUE]
    ELSE IF board[x_root[2]][x_root[1]].rank < board[y_root[2]][y_root[1]].rank
         THEN fu_link(board, y_root, x_root)
         ELSE fu_link(board, x_root, y_root)

\* fu_union after both fu_find calls: nothing to do for equal roots, else
\* the root of smaller rank is linked under the other.
fu_union_roots(board, x_root, y_root) ==
    IF x_root = y_root
    THEN [board |-> board, ret |-> FALSE]
    ELSE IF board[x_root[2]][x_root[1]].rank < board[y_root[2]][y_root[1]].rank
         THEN fu_link(board, y_root, x_root)
         ELSE fu_link(board, x_root, y_root)

fu_union_second_find(x_root, fy) == fu_union_roots(fy.board, x_root, fy.root)

fu_union_first_find(fx, y) == fu_union_second_find(fx.root, fu_find(fx.board, y))

\* fu_union: union by rank; returns whether two sets were merged.
fu_union(board, x, y) == fu_union_first_find(fu_find(board, x), y)

----------------------------------------------------------------------------
\* construction

\* allocate_board: every field empty, its own parent, rank 1, player 0.
allocate_board(width, height) ==
    [row \in 0..(height - 1) |->
        [i \in 0..(width - 1) |->
            [empty |-> TRUE, parent |-> <<i, row>>, rank |-> 1, player |-> 0]]]

\* Faulty variant of gamma_game_new_arguments_valid: areas is not tested.
gamma_game_new_arguments_valid_without_areas(width, height, players, areas) ==
    ~(width = 0 \/ height = 0 \/ players = 0)

gamma_game_new_arguments_valid(width, height, players, areas) ==
    ~(width = 0 \/ height = 0 \/ players = 0 \/ areas = 0)

\* gamma_new, with every allocation succeeding; the player table is calloc'ed.
gamma_new(width, height, players, areas) ==
    IF ~gamma_game_new_arguments_valid(width, height, players, areas)
    THEN NullGame
    ELSE [null |-> FALSE,
          width |-> width,
          height |-> height,
          max_areas |-> areas,
          players_num |-> players,
          occupied_fields |-> 0,
          players |-> [p \in 0..(players - 1) |->
                          [golden_move_done |-> FALSE, areas |-> 0,
                           occupied_fields |-> 0, border_empty_fields |-> 0]],
          board |-> allocate_board(width, height)]

\* The blocks gamma_new allocates: the game structure, the player table, the
\* array of row pointers and one block for each row.
GameBlock == <<"game", 0>>

PlayersBlock == <<"players", 0>>

BoardBlock == <<"board", 0>>

RowBlocks(n) == {<<"row", row>> : row \in 0..(n - 1)}

\* No allocation fails.
NoBlock == <<"none", 0>>

\* allocate_board's row loop stops at the row whose malloc returns NULL
\* (fail is the block whose allocation fails).
allocated_rows(height, fail) ==
    IF fail[1] = "row" /\ fail[2] < height THEN fail[2] ELSE height

\* Faulty variant of allocate_board_blocks: the rows allocated before the
\* failure are not freed.
allocate_board_blocks_rows_left(blocks, height, fail) ==
    IF fail = BoardBlock
    THEN [ok |-> FALSE, heap |-> blocks]
    ELSE IF allocated_rows(height, fail) = height
         THEN [ok |-> TRUE,
               heap |-> blocks \cup {BoardBlock} \cup RowBlocks(height)]
         ELSE [ok |-> FALSE,
               heap |-> (blocks \cup {BoardBlock}
                            \cup RowBlocks(allocated_rows(height, fail)))
                        \ {BoardBlock}]

\* The allocations and frees of allocate_board: ok is whether a board is
\* returned, heap the live blocks at the return.
allocate_board_blocks(blocks, height, fail) ==
    IF fail = BoardBlock
    THEN [ok |-> FALSE, heap |-> blocks]
    ELSE IF allocated_rows(height, fail) = height
         THEN [ok |-> TRUE,
               heap |-> blocks \cup {BoardBlock} \cup RowBlocks(height)]
         ELSE [ok |-> FALSE,
               heap |-> ((blocks \cup {BoardBlock}
                             \cup RowBlocks(allocated_rows(height, fail)))
                         \ RowBlocks(allocated_rows(height, fail)))
                        \ {BoardBlock}]

\* gamma_new after the game structure and the player table are allocated.
gamma_new_board(width, height, players, areas, ab) ==
    IF ab.ok
    THEN [g |-> gamma_new(width, height, players, areas), heap |-> ab.heap]
    ELSE [g |-> NullGame, heap |-> (ab.heap \ {PlayersBlock}) \ {GameBlock}]

\* gamma_new with its allocations: the game returned (NullGame for NULL) and
\* the live blocks at the return, when the allocation of block fail fails.
gamma_new_alloc(blocks, width, height, players, areas, fail) ==
    IF ~gamma_game_new_arguments_valid(width, height, players, areas)
    THEN [g |-> NullGame, heap |-> blocks]
    ELSE IF fail = GameBlock
    THEN [g |-> NullGame, heap |-> blocks]
    ELSE IF fail = PlayersBlock
    THEN [g |-> NullGame, heap |-> (blocks \cup {GameBlock}) \ {GameBlock}]
    ELSE gamma_new_board(width, height, players, areas,
             allocate_board_blocks(blocks \cup {GameBlock, PlayersBlock},
                                   height, fail))

\* gamma_delete: the live blocks after it.
gamma_delete(blocks, gm) ==
    IF gm.null
    THEN blocks
    ELSE ((blocks \ RowBlocks(gm.height)) \ {BoardBlock})
             \ {PlayersBlock, GameBlock}

----------------------------------------------------------------------------
\* board helpers

is_within_board(gm, x, y) ==
    x >= 0 /\ y >= 0 /\ gm.width > x /\ gm.height > y

belongs_to_player(gm, x, y, player) ==
    /\ is_within_board(gm, x, y)
    /\ ~gm.board[y][x].empty
    /\ gm.board[y][x].player = player

has_neighbor(gm, x, y, player) ==
    \/ belongs_to_player(gm, x + 1, y, player)
    \/ belongs_to_player(gm, x - 1, y, player)
    \/ belongs_to_player(gm, x, y + 1, player)
    \/ belongs_to_player(gm, x, y - 1, player)

get_field(gm, x, y) ==
    IF is_within_board(gm, x, y) THEN <<x, y>> ELSE NULL

\* The table index of a player number (player % g->players_num in the code).
player_index(gm, player) == player % gm.players_num

\* The four neighbours in the order the code visits them:
\* (x+1, y), (x-1, y), (x, y+1), (x, y-1).
NeighborOffsets == << <<1, 0>>, <<-1, 0>>, <<0, 1>>, <<0, -1>> >>

\* One merged_areas += fu_union(...) of union_neighbors.
add_union(acc, u) ==
    [g |-> [acc.g EXCEPT !.board = u.board],
     merged |-> acc.merged + (IF u.ret THEN 1 ELSE 0)]

RECURSIVE union_neighbors_from(_, _, _, _, _)
union_neighbors_from(acc, column, row, player, i) ==
    IF i > Len(NeighborOffsets)
    THEN acc
    ELSE union_neighbors_from(
             IF belongs_to_player(acc.g, column + NeighborOffsets[i][1],
                                  row + NeighborOffsets[i][2], player)
             THEN add_union(acc, fu_union(acc.g.board, <<column, row>>,
                                          <<column + NeighborOffsets[i][1],
                                            row + NeighborOffsets[i][2]>>))
             ELSE acc,
             column, row, player, i + 1)

\* Faulty variant of union_neighbors: the neighbour at column + 1 is left out.
union_neighbors_without_right(gm, column, row) ==
    union_neighbors_from([g |-> gm, merged |-> 0], column, row,
                         gm.board[row][column].player, 2)

\* union_neighbors: unites the field with each neighbour of the same player;
\* returns the number of unions that merged two sets.
union_neighbors(gm, column, row) ==
    union_neighbors_from([g |-> gm, merged |-> 0], column, row,
                         gm.board[row][column].player, 1)

\* new_border_empty_fields: the empty neighbours of (x, y) that have no
\* neighbour owned by player.
new_border_empty_fields(gm, x, y, player) ==
    Cardinality({i \in 1..Len(NeighborOffsets) :
        LET fx == x + NeighborOffsets[i][1]
            fy == y + NeighborOffsets[i][2]
            f == get_field(gm, fx, fy)
        IN  /\ f # NULL
            /\ gm.board[fy][fx].empty
            /\ ~has_neighbor(gm, fx, fy, player)})

\* Faulty variant of clear_same_player: the other neighbours of the same
\* player are not struck out, so that player is decremented once per field.
clear_same_player_keeps_all(gm, neighbors, neighbor, j) == neighbors

RECURSIVE clear_same_player(_, _, _, _)
clear_same_player(gm, neighbors, neighbor, j) ==
    IF j > Len(neighbors)
    THEN neighbors
    ELSE LET f == neighbors[j]
             hit == f # NULL /\ gm.board[f[2]][f[1]].player = neighbor
         IN clear_same_player(gm, IF hit THEN [neighbors EXCEPT ![j] = NULL]
                                         ELSE neighbors, neighbor, j + 1)

RECURSIVE decrement_from(_, _, _)
decrement_from(gm, neighbors, i) ==
    IF i > Len(neighbors)
    THEN gm
    ELSE LET f == neighbors[i] IN
         IF f = NULL \/ gm.board[f[2]][f[1]].empty
         THEN decrement_from(gm, neighbors, i + 1)
         ELSE LET neighbor == gm.board[f[2]][f[1]].player
                  idx == player_index(gm, neighbor)
                  dec == [gm EXCEPT !.players[idx].border_empty_fields = @ - 1]
              IN decrement_from(dec, clear_same_player(gm, neighbors, neighbor, i),
                                i + 1)

\* Faulty variant of decrement_neighbors_border_empty_fields: the loop
\* begins at the second neighbour, so the owner of (x+1, y) is passed over.
decrement_neighbors_border_empty_fields_from_second(gm, x, y) ==
    decrement_from(gm,
                   [i \in 1..Len(NeighborOffsets) |->
                       get_field(gm, x + NeighborOffsets[i][1],
                                 y + NeighborOffsets[i][2])],
                   2)

\* decrement_neighbors_border_empty_fields: one decrement for each distinct
\* player that owns a neighbour of (x, y).
decrement_neighbors_border_empty_fields(gm, x, y) ==
    decrement_from(gm,
                   [i \in 1..Len(NeighborOffsets) |->
                       get_field(gm, x + NeighborOffsets[i][1],
                                 y + NeighborOffsets[i][2])],
                   1)

\* Faulty variant of would_exceed_areas_limit: the limit counts as reached
\* only once it is already exceeded.
would_exceed_areas_limit_off_by_one(gm, player, x, y) ==
    /\ gm.players[player_index(gm, player)].areas > gm.max_areas
    /\ ~has_neighbor(gm, x, y, player)

would_exceed_areas_limit(gm, player, x, y) ==
    /\ gm.players[player_index(gm, player)].areas = gm.max_areas
    /\ ~has_neighbor(gm, x, y, player)

\* Faulty variant of gamma_game_move_arguments_valid: an occupied field is
\* not refused.
gamma_game_move_arguments_valid_any_field(gm, player, x, y) ==
    ~(\/ gm.null
      \/ player = 0
      \/ player > gm.players_num
      \/ x >= gm.width
      \/ y >= gm.height
      \/ would_exceed_areas_limit(gm, player, x, y))

gamma_game_move_arguments_valid(gm, player, x, y) ==
    ~(\/ gm.null
      \/ player = 0
      \/ player > gm.players_num
      \/ x >= gm.width
      \/ y >= gm.height
      \/ ~gm.board[y][x].empty
      \/ would_exceed_areas_limit(gm, player, x, y))

----------------------------------------------------------------------------
\* ordinary move

\* The assignments of gamma_move before union_neighbors: the piece is put
\* down and the three counters are incremented.
\* Faulty variant of place_piece: the player's own occupied_fields is not
\* incremented.
place_piece_without_player_count(gm, player, x, y) ==
    [gm EXCEPT !.board[y][x].player = player,
               !.board[y][x].empty = FALSE,
               !.occupied_fields = @ + 1,
               !.players[player_index(gm, player)].areas = @ + 1]

\* Faulty variant of place_piece: the game's occupied_fields is not
\* incremented.
place_piece_without_total(gm, player, x, y) ==
    [gm EXCEPT !.board[y][x].player = player,
               !.board[y][x].empty = FALSE,
               !.players[player_index(gm, player)].areas = @ + 1,
               !.players[player_index(gm, player)].occupied_fields = @ + 1]

\* Faulty variant of place_piece: the empty flag of the field is left set.
place_piece_leaves_empty(gm, player, x, y) ==
    [gm EXCEPT !.board[y][x].player = player,
               !.occupied_fields = @ + 1,
               !.players[player_index(gm, player)].areas = @ + 1,
               !.players[player_index(gm, player)].occupied_fields = @ + 1]

place_piece(gm, player, x, y) ==
    [gm EXCEPT !.board[y][x].player = player,
               !.board[y][x].empty = FALSE,
               !.occupied_fields = @ + 1,
               !.players[player_index(gm, player)].areas = @ + 1,
               !.players[player_index(gm, player)].occupied_fields = @ + 1]

\* Faulty variant of subtract_merged: at most one area is subtracted,
\* however many unions merged.
subtract_merged_at_most_one(u, idx) ==
    [u.g EXCEPT !.players[idx].areas = @ - (IF u.merged > 0 THEN 1 ELSE 0)]

\* areas -= union_neighbors(...): u is what union_neighbors returned.
subtract_merged(u, idx) ==
    [u.g EXCEPT !.players[idx].areas = @ - u.merged]

\* border_empty_fields += border_empty_fields_to_add.
add_border_empty_fields(gm, idx, border_empty_fields_to_add) ==
    [gm EXCEPT !.players[idx].border_empty_fields = @ + border_empty_fields_to_add]

\* gamma_move: the new game and the returned value.
gamma_move(gm, player, x, y) ==
    IF ~gamma_game_move_arguments_valid(gm, player, x, y)
    THEN [g |-> gm, ret |-> FALSE, site |-> "rejected"]
    ELSE [g |-> decrement_neighbors_border_empty_fields(
                    add_border_empty_fields(
                        subtract_merged(
                            union_neighbors(place_piece(gm, player, x, y), x, y),
                            player_index(gm, player)),
                        player_index(gm, player),
                        new_border_empty_fields(gm, x, y, player)),
                    x, y),
          ret |-> TRUE, site |-> "done"]

----------------------------------------------------------------------------
\* golden move

\* The fields in the order of the code's nested loops: rows from 0 up,
\* columns from 0 up within a row.
RowMajor(gm) ==
    [k \in 1..(gm.width * gm.height) |->
        <<(k - 1) % gm.width, (k - 1) \div gm.width>>]

RECURSIVE reset_from(_, _, _)
reset_from(gm, order, k) ==
    IF k > Len(order)
    THEN gm
    ELSE LET column == order[k][1]
             row == order[k][2]
         IN IF gm.board[row][column].empty
            THEN reset_from(gm, order, k + 1)
            ELSE LET idx == player_index(gm, gm.board[row][column].player)
                 IN reset_from([gm EXCEPT !.board[row][column].parent = <<column, row>>,
                                          !.board[row][column].rank = 1,
                                          !.players[idx].areas = @ + 1],
                               order, k + 1)

\* reset_find_union_metadata: every occupied field becomes a singleton set
\* and counts as one area of its owner.
reset_find_union_metadata(gm) == reset_from(gm, RowMajor(gm), 1)

RECURSIVE rebuild_from(_, _, _)
rebuild_from(gm, order, k) ==
    IF k > Len(order)
    THEN gm
    ELSE LET column == order[k][1]
             row == order[k][2]
         IN IF gm.board[row][column].empty
            THEN rebuild_from(gm, order, k + 1)
            ELSE rebuild_from(
                     subtract_merged(union_neighbors(gm, column, row),
                                     player_index(gm, gm.board[row][column].player)),
                     order, k + 1)

\* The first loop of reindex_areas: every player's areas set to 0.
zero_areas(gm) ==
    [gm EXCEPT !.players =
        [p \in DOMAIN gm.players |-> [gm.players[p] EXCEPT !.areas = 0]]]

\* Faulty variant of within_areas_limit: the comparison with max_areas is
\* missing and the result is always true.
within_areas_limit_unchecked(gm) == [g |-> gm, ret |-> TRUE]

\* The last loop of reindex_areas: TRUE iff no player is above max_areas.
within_areas_limit(gm) ==
    [g |-> gm,
     ret |-> ~(\E p \in 0..(gm.players_num - 1) :
                   gm.players[p].areas > gm.max_areas)]

\* reindex_areas: rebuilds the find-union sets and every player's areas from
\* the owners on the board; returns TRUE iff no player is above max_areas.
reindex_areas(gm) ==
    within_areas_limit(
        rebuild_from(reset_find_union_metadata(zero_areas(gm)), RowMajor(gm), 1))

\* Faulty variant of is_golden_move_impossible: golden_move_done is not
\* looked at.
is_golden_move_impossible_ignoring_done(gm, player, x, y) ==
    \/ gm.null
    \/ player = 0
    \/ player > gm.players_num
    \/ x >= gm.width
    \/ y >= gm.height
    \/ gm.board[y][x].empty
    \/ gm.board[y][x].player = player
    \/ would_exceed_areas_limit(gm, player, x, y)

is_golden_move_impossible(gm, player, x, y) ==
    \/ gm.null
    \/ player = 0
    \/ player > gm.players_num
    \/ x >= gm.width
    \/ y >= gm.height
    \/ gm.board[y][x].empty
    \/ gm.board[y][x].player = player
    \/ gm.players[player_index(gm, player)].golden_move_done
    \/ would_exceed_areas_limit(gm, player, x, y)

\* Faulty variant of the revert branch: the owner is put back without the
\* second re-index.
golden_move_revert_without_reindex(gm, x, y, previous_player) ==
    [gm EXCEPT !.board[y][x].player = previous_player]

\* Faulty variant of the revert branch: the field is cleared instead of
\* being given back to the previous owner.
golden_move_revert_clears_field(gm, x, y, previous_player) ==
    reindex_areas([gm EXCEPT !.board[y][x].player = 0,
                             !.board[y][x].empty = TRUE]).g

\* The revert branch of gamma_golden_move: the previous owner is put back
\* and the areas are re-indexed once more.
golden_move_revert(gm, x, y, previous_player) ==
    reindex_areas([gm EXCEPT !.board[y][x].player = previous_player]).g

\* Faulty variant of golden_move_gain: golden_move_done is set for every
\* player, not for the moving one alone.
golden_move_gain_marks_all(gm, idx, border_empty_fields_to_add) ==
    [gm EXCEPT !.players =
        [p \in DOMAIN gm.players |->
            IF p = idx
            THEN [gm.players[p] EXCEPT
                     !.occupied_fields = @ + 1,
                     !.border_empty_fields = @ + border_empty_fields_to_add,
                     !.golden_move_done = TRUE]
            ELSE [gm.players[p] EXCEPT !.golden_move_done = TRUE]]]

\* The gains of the moving player after a re-index within the limit.
golden_move_gain(gm, idx, border_empty_fields_to_add) ==
    [gm EXCEPT !.players[idx].occupied_fields = @ + 1,
               !.players[idx].border_empty_fields = @ + border_empty_fields_to_add,
               !.players[idx].golden_move_done = TRUE]

\* Faulty variant of golden_move_loss: the previous owner's occupied_fields
\* is not decremented.
golden_move_loss_keeps_occupied(gm, x, y, previous_player) ==
    [gm EXCEPT
        !.players[player_index(gm, previous_player)].border_empty_fields =
            @ - new_border_empty_fields(gm, x, y, previous_player)]

\* The losses of the previous owner, its lost border fields counted on the
\* board as it is after the change of owner.
golden_move_loss(gm, x, y, previous_player) ==
    [gm EXCEPT
        !.players[player_index(gm, previous_player)].occupied_fields = @ - 1,
        !.players[player_index(gm, previous_player)].border_empty_fields =
            @ - new_border_empty_fields(gm, x, y, previous_player)]

\* gamma_golden_move after the first re-index (taken).
golden_move_settle(gm, taken, player, x, y) ==
    IF ~taken.ret
    THEN [g |-> golden_move_revert(taken.g, x, y, gm.board[y][x].player),
          ret |-> FALSE, site |-> "reverted"]
    ELSE [g |-> golden_move_loss(
                    golden_move_gain(taken.g, player_index(gm, player),
                                     new_border_empty_fields(gm, x, y, player)),
                    x, y, gm.board[y][x].player),
          ret |-> TRUE, site |-> "done"]

\* gamma_golden_move: the new game and the returned value; site names the
\* return statement taken.
gamma_golden_move(gm, player, x, y) ==
    IF is_golden_move_impossible(gm, player, x, y)
    THEN [g |-> gm, ret |-> FALSE, site |-> "rejected"]
    ELSE golden_move_settle(gm, reindex_areas([gm EXCEPT !.board[y][x].player = player]),
                            player, x, y)

----------------------------------------------------------------------------
\* queries

\* uint32_t arithmetic on the halves, modulo 2^32.
uint32_of(n) == <<n \div HalfWord, n % HalfWord>>

uint32_add(a, b) ==
    <<(a[1] + b[1] + ((a[2] + b[2]) \div HalfWord)) % HalfWord,
      (a[2] + b[2]) % HalfWord>>

uint32_double(a) == uint32_add(a, a)

\* a * n in uint32_t, by doubling.
RECURSIVE uint32_times(_, _)
uint32_times(a, n) ==
    IF n = 0
    THEN <<0, 0>>
    ELSE uint32_add(uint32_double(uint32_times(a, n \div 2)),
                    IF n % 2 = 1 THEN a ELSE <<0, 0>>)

\* g->width * g->height: both operands are uint32_t, so is the product.
uint32_product(width, height) == uint32_times(uint32_of(width), height)

\* The conversion of a uint32_t to uint64_t.
uint64_of(a) == a[1] * HalfWord + a[2]

\* Faulty variant of gamma_busy_fields: the table is indexed by player - 1
\* while every writer indexes it by player % players_num.
gamma_busy_fields_minus_one(gm, player) ==
    IF gm.null \/ player = 0 \/ player > gm.players_num
    THEN 0
    ELSE gm.players[player - 1].occupied_fields

gamma_busy_fields(gm, player) ==
    IF gm.null \/ player = 0 \/ player > gm.players_num
    THEN 0
    ELSE gm.players[player_index(gm, player)].occupied_fields

\* Faulty variant of gamma_free_fields: a player at max_areas is still
\* offered every empty field.
gamma_free_fields_at_limit_too(gm, player) ==
    IF gm.null \/ player = 0 \/ player > gm.players_num
    THEN 0
    ELSE LET idx == player_index(gm, player) IN
         IF gm.players[idx].areas <= gm.max_areas
         THEN uint64_of(uint32_product(gm.width, gm.height)) - gm.occupied_fields
         ELSE gm.players[idx].border_empty_fields

\* Faulty variant of gamma_free_fields: a player number above players_num is
\* not refused and reads the record its remainder selects.
gamma_free_fields_any_player(gm, player) ==
    IF gm.null \/ player = 0
    THEN 0
    ELSE LET idx == player_index(gm, player) IN
         IF gm.players[idx].areas < gm.max_areas
         THEN LET total_fields == uint64_of(uint32_product(gm.width, gm.height))
              IN total_fields - gm.occupied_fields
         ELSE gm.players[idx].border_empty_fields

\* gamma_free_fields.  total_fields is a uint64_t initialised with the
\* uint32_t product of width and height.
gamma_free_fields(gm, player) ==
    IF gm.null \/ player = 0 \/ player > gm.players_num
    THEN 0
    ELSE LET idx == player_index(gm, player) IN
         IF gm.players[idx].areas < gm.max_areas
         THEN LET total_fields == uint64_of(uint32_product(gm.width, gm.height))
              IN total_fields - gm.occupied_fields
         ELSE gm.players[idx].border_empty_fields

\* Faulty variant of gamma_golden_possible: the table index p is compared
\* with the player number instead of the player's index.
gamma_golden_possible_number_for_index(gm, player) ==
    IF gm.null \/ player = 0 \/ player > gm.players_num
    THEN FALSE
    ELSE LET idx == player_index(gm, player) IN
         IF gm.players[idx].golden_move_done
         THEN FALSE
         ELSE \E p \in 0..(gm.players_num - 1) :
                  gm.players[p].occupied_fields > 0 /\ p # player

\* Faulty variant of gamma_golden_possible: another player counts only
\* from its second field on.
gamma_golden_possible_second_field(gm, player) ==
    IF gm.null \/ player = 0 \/ player > gm.players_num
    THEN FALSE
    ELSE LET idx == player_index(gm, player) IN
         IF gm.players[idx].golden_move_done
         THEN FALSE
         ELSE \E p \in 0..(gm.players_num - 1) :
                  gm.players[p].occupied_fields > 1 /\ p # idx

gamma_golden_possible(gm, player) ==
    IF gm.null \/ player = 0 \/ player > gm.players_num
    THEN FALSE
    ELSE LET idx == player_index(gm, player) IN
         IF gm.players[idx].golden_move_done
         THEN FALSE
         ELSE \E p \in 0..(gm.players_num - 1) :
                  gm.players[p].occupied_fields > 0 /\ p # idx

gamma_players_number(gm) == IF gm.null THEN 0 ELSE gm.players_num

gamma_board_width(gm) == IF gm.null THEN 0 ELSE gm.width

gamma_board_height(gm) == IF gm.null THEN 0 ELSE gm.height

----------------------------------------------------------------------------
\* the renderer.  A string is a sequence of characters; NUL is the
\* terminator.

NUL == "NUL"

DigitChar == <<"0", "1", "2", "3", "4", "5", "6", "7", "8", "9">>

RECURSIVE get_uint_length(_)
get_uint_length(value) ==
    IF value > 9 THEN 1 + get_uint_length(value \div 10) ELSE 1

\* What printf's %u writes for value.
RECURSIVE Decimal(_)
Decimal(value) ==
    IF value > 9
    THEN Decimal(value \div 10) \o <<DigitChar[(value % 10) + 1]>>
    ELSE <<DigitChar[value + 1]>>

\* What printf writes for a conversion with minimum width field_width:
\* text, with spaces before it where it is shorter.
Padded(field_width, text) ==
    [i \in 1..(IF field_width > Len(text) THEN field_width - Len(text) ELSE 0)
        |-> " "] \o text

\* gamma_render_field: the characters written (written_characters is their
\* number).
gamma_render_field(gm, x, y, field_width) ==
    IF gm.board[y][x].empty
    THEN Padded(field_width, <<".">>)
    ELSE Padded(field_width, Decimal(gm.board[y][x].player))

\* The largest of the numbers in S, none below 1.
MaxFrom1(S) == CHOOSE m \in S \cup {1} : \A n \in S \cup {1} : n <= m

max_player(gm) ==
    MaxFrom1({p \in 1..gm.players_num :
                 gm.players[p % gm.players_num].occupied_fields > 0})

max_player_first_column(gm) ==
    MaxFrom1({gm.board[r][0].player : r \in {r \in 0..(gm.height - 1) :
                                                ~gm.board[r][0].empty}})

\* Faulty variant of gamma_rendered_fields_width: the first column is as
\* wide as the others.
gamma_rendered_fields_width_equal_columns(gm) ==
    [field_width |-> IF get_uint_length(max_player(gm)) = 1
                     THEN 1
                     ELSE get_uint_length(max_player(gm)) + 1,
     first_column_width |-> IF get_uint_length(max_player(gm)) = 1
                            THEN 1
                            ELSE get_uint_length(max_player(gm)) + 1]

\* Faulty variant of gamma_rendered_fields_width: no padding character is
\* added for players of two digits and more.
gamma_rendered_fields_width_unpadded(gm) ==
    [field_width |-> get_uint_length(max_player(gm)),
     first_column_width |-> get_uint_length(max_player_first_column(gm))]

gamma_rendered_fields_width(gm) ==
    [field_width |-> IF get_uint_length(max_player(gm)) = 1
                     THEN 1
                     ELSE get_uint_length(max_player(gm)) + 1,
     first_column_width |-> get_uint_length(max_player_first_column(gm))]

\* gamma_board's buffer: str the characters written so far (pos is their
\* number), live whether str points to an allocated block, reallocs the
\* number of realloc calls made.
EmptyBuffer ==
    [str |-> <<>>, allocated_space |-> 0, written_fields |-> 0,
     live |-> FALSE, reallocs |-> 0]

\* A realloc that succeeds.  total_fields is a uint64_t initialised with
\* the uint32_t product of width and height.
board_grow(gm, w, b, y) ==
    [b EXCEPT !.allocated_space =
                  @ + (uint64_of(uint32_product(gm.width, gm.height))
                          - b.written_fields) * w.field_width
                    + y + min_buffer_size,
              !.live = TRUE,
              !.reallocs = @ + 1]

board_write(gm, w, b, x, y) ==
    [b EXCEPT !.str = @ \o gamma_render_field(gm, x, y,
                              IF x = 0 THEN w.first_column_width
                                       ELSE w.field_width)]

\* Faulty variant of board_end_row: no newline is written.
board_end_row_without_newline(b) ==
    [b EXCEPT !.written_fields = @ + 1]

\* The end of a row: the newline, and written_fields++ of the outer loop.
board_end_row(b) ==
    [b EXCEPT !.str = @ \o <<"\n">>, !.written_fields = @ + 1]

\* realloc returned NULL: str is assigned NULL, free(str) frees nothing,
\* and the block str pointed to before stays allocated.
board_realloc_failed(b) == [null |-> TRUE, str |-> <<>>, live |-> b.live]

\* The two loops of gamma_board from field (x, y) on; fail is the number of
\* the realloc call that returns NULL (0 for none).
RECURSIVE board_from(_, _, _, _, _, _)
board_from(gm, w, b, x, y, fail) ==
    IF y < 0
    THEN [null |-> FALSE, str |-> b.str \o <<NUL>>, live |-> b.live]
    ELSE IF x = gm.width
    THEN board_from(gm, w, board_end_row(b), 0, y - 1, fail)
    ELSE IF b.allocated_space - Len(b.str) < min_buffer_size
    THEN IF b.reallocs + 1 = fail
         THEN board_realloc_failed(b)
         ELSE board_from(gm, w, board_write(gm, w, board_grow(gm, w, b, y), x, y),
                         x + 1, y, fail)
    ELSE board_from(gm, w, board_write(gm, w, b, x, y), x + 1, y, fail)

\* gamma_board: null is whether NULL is returned, str the string returned,
\* live whether a block allocated by the call is still allocated.
gamma_board(gm, fail) ==
    IF gm.null
    THEN [null |-> TRUE, str |-> <<>>, live |-> FALSE]
    ELSE board_from(gm, gamma_rendered_fields_width(gm), EmptyBuffer,
                    0, gm.height - 1, fail)

----------------------------------------------------------------------------
\* interactive_mode.c.  The standard input is a sequence of characters, the
\* empty sequence being the end of the input; characters without a
\* printable form are named.

END_OF_TRANSMISSION == "EOT"

ESCAPE == "ESC"

OPENING_SQUARE_BRACKET == "["

ARROW_UP == "A"

ARROW_DOWN == "B"

ARROW_RIGHT == "C"

ARROW_LEFT == "D"

\* Faulty variant of respond_to_arrow_key: the up arrow does not stop at the
\* top row.
respond_to_arrow_key_past_edge(gm, in, fx, fy) ==
    IF in = <<>> \/ Head(in) # OPENING_SQUARE_BRACKET
    THEN [stdin |-> in, field_x |-> fx, field_y |-> fy]
    ELSE IF Tail(in) = <<>>
    THEN [stdin |-> <<>>, field_x |-> fx, field_y |-> fy]
    ELSE LET key == Head(Tail(in)) IN
         IF key = ARROW_UP
         THEN [stdin |-> Tail(Tail(in)), field_x |-> fx,
               field_y |-> fy + 1]
         ELSE IF key = ARROW_DOWN
         THEN [stdin |-> Tail(Tail(in)), field_x |-> fx,
               field_y |-> IF fy > 0 THEN fy - 1 ELSE 0]
         ELSE IF key = ARROW_RIGHT
         THEN [stdin |-> Tail(Tail(in)), field_y |-> fy,
               field_x |-> IF fx + 1 < gamma_board_width(gm) THEN fx + 1 ELSE fx]
         ELSE IF key = ARROW_LEFT
         THEN [stdin |-> Tail(Tail(in)), field_y |-> fy,
               field_x |-> IF fx > 0 THEN fx - 1 ELSE 0]
         ELSE [stdin |-> Tail(in), field_x |-> fx, field_y |-> fy]

\* respond_to_arrow_key, on the input that follows the escape character
\* (pushed back by respond_to_key and read again here).  A character that
\* does not continue the sequence is pushed back; pushing back EOF does
\* nothing.
respond_to_arrow_key(gm, in, fx, fy) ==
    IF in = <<>> \/ Head(in) # OPENING_SQUARE_BRACKET
    THEN [stdin |-> in, field_x |-> fx, field_y |-> fy]
    ELSE IF Tail(in) = <<>>
    THEN [stdin |-> <<>>, field_x |-> fx, field_y |-> fy]
    ELSE LET key == Head(Tail(in)) IN
         IF key = ARROW_UP
         THEN [stdin |-> Tail(Tail(in)), field_x |-> fx,
               field_y |-> IF fy + 1 < gamma_board_height(gm) THEN fy + 1 ELSE fy]
         ELSE IF key = ARROW_DOWN
         THEN [stdin |-> Tail(Tail(in)), field_x |-> fx,
               field_y |-> IF fy > 0 THEN fy - 1 ELSE 0]
         ELSE IF key = ARROW_RIGHT
         THEN [stdin |-> Tail(Tail(in)), field_y |-> fy,
               field_x |-> IF fx + 1 < gamma_board_width(gm) THEN fx + 1 ELSE fx]
         ELSE IF key = ARROW_LEFT
         THEN [stdin |-> Tail(Tail(in)), field_y |-> fy,
               field_x |-> IF fx > 0 THEN fx - 1 ELSE 0]
         ELSE [stdin |-> Tail(in), field_x |-> fx, field_y |-> fy]

\* Faulty variant of key_moved: the turn is passed on whether or not the
\* move was made.
key_moved_always_advances(r, in, fx, fy, message) ==
    [g |-> r.g, stdin |-> in, field_x |-> fx, field_y |-> fy,
     advance_player |-> TRUE,
     error_message |-> IF r.ret THEN "" ELSE message]

\* What respond_to_key leaves when it called gamma_move or
\* gamma_golden_move and got r.
key_moved(r, in, fx, fy, message) ==
    [g |-> r.g, stdin |-> in, field_x |-> fx, field_y |-> fy,
     advance_player |-> r.ret,
     error_message |-> IF r.ret THEN "" ELSE message]

\* respond_to_key, in being the input after the key.
respond_to_key(key, gm, in, fx, fy, player) ==
    IF key = " "
    THEN key_moved(gamma_move(gm, player, fx, fy), in, fx, fy,
                   "Can't make this move.")
    ELSE IF key = "c" \/ key = "C"
    THEN [g |-> gm, stdin |-> in, field_x |-> fx, field_y |-> fy,
          advance_player |-> TRUE, error_message |-> ""]
    ELSE IF key = "g" \/ key = "G"
    THEN key_moved(gamma_golden_move(gm, player, fx, fy), in, fx, fy,
                   "Can't make this golden move.")
    ELSE IF key = ESCAPE
    THEN LET a == respond_to_arrow_key(gm, in, fx, fy) IN
         [g |-> gm, stdin |-> a.stdin, field_x |-> a.field_x,
          field_y |-> a.field_y, advance_player |-> FALSE, error_message |-> ""]
    ELSE [g |-> gm, stdin |-> in, field_x |-> fx, field_y |-> fy,
          advance_player |-> FALSE, error_message |-> ""]

\* The do-while loop of advance_player_number; checks counts the players
\* examined so far.
RECURSIVE advance_player_number_loop(_, _, _, _, _)
advance_player_number_loop(gm, player, next_player, next_player_guard, checks) ==
    LET next == (next_player % gamma_players_number(gm)) + 1 IN
    IF gamma_free_fields(gm, next) # 0 \/ gamma_golden_possible(gm, next)
    THEN [ret |-> TRUE, player |-> next, checks |-> checks + 1]
    ELSE IF next # next_player_guard
    THEN advance_player_number_loop(gm, player, next, next_player_guard,
                                    checks + 1)
    ELSE [ret |-> FALSE, player |-> player, checks |-> checks + 1]

\* Faulty variant of advance_player_number: the search begins at the
\* current player.
advance_player_number_from_current(gm, player) ==
    LET next_player == ((player - 1) % gamma_players_number(gm)) + 1 IN
    IF gamma_free_fields(gm, next_player) # 0
           \/ gamma_golden_possible(gm, next_player)
    THEN [ret |-> TRUE, player |-> next_player, checks |-> 1]
    ELSE advance_player_number_loop(gm, player, next_player, next_player, 1)

advance_player_number(gm, player) ==
    LET next_player == (player % gamma_players_number(gm)) + 1 IN
    IF gamma_free_fields(gm, next_player) # 0
           \/ gamma_golden_possible(gm, next_player)
    THEN [ret |-> TRUE, player |-> next_player, checks |-> 1]
    ELSE advance_player_number_loop(gm, player, next_player, next_player, 1)

\* The loop of print_game_winner from player p on.
RECURSIVE print_game_winner_from(_, _, _, _, _)
print_game_winner_from(gm, p, winner, winner_fields, sole_winner) ==
    IF p > gamma_players_number(gm)
    THEN IF sole_winner THEN <<"stdout", "wins", winner, winner_fields>>
                        ELSE <<"stdout", "tie">>
    ELSE LET player_fields == gamma_busy_fields(gm, p) IN
         IF player_fields > winner_fields
         THEN print_game_winner_from(gm, p + 1, p, player_fields, TRUE)
         ELSE IF player_fields = winner_fields
         THEN print_game_winner_from(gm, p + 1, winner, winner_fields, FALSE)
         ELSE print_game_winner_from(gm, p + 1, winner, winner_fields,
                                     sole_winner)

\* Faulty variant of print_game_winner: the loop begins at player 3.
print_game_winner_without_second(gm) ==
    print_game_winner_from(gm, 3, 1, gamma_busy_fields(gm, 1), TRUE)

\* print_game_winner: what is announced.
print_game_winner(gm) ==
    print_game_winner_from(gm, 2, 1, gamma_busy_fields(gm, 1), TRUE)

\* print_game_summary; the board is rendered first, and rendered is what
\* gamma_board returned.
print_game_summary(gm, rendered) ==
    IF rendered.null
    THEN [error |-> "MEMORY_ERROR", out |-> <<>>]
    ELSE [error |-> "NO_ERROR",
          out |-> <<<<"stdout", "board", rendered.str>>, print_game_winner(gm)>>]

\* run_interactive_mode once run_io_loop has returned loop_error:
\* cleanup_error is what restore_terminal_settings returned.
run_interactive_mode_end(gm, loop_error, cleanup_error, rendered) ==
    IF loop_error = "NO_ERROR" /\ cleanup_error = "NO_ERROR"
    THEN print_game_summary(gm, rendered)
    ELSE [error |-> "TERMINAL_ERROR", out |-> <<>>]

----------------------------------------------------------------------------
\* text_input_handler.c.  Every function takes the input it reads from and
\* returns, with its result, what it has left unread.

isspace(ch) == ch \in {" ", "\t", "\n", "\r", "\f"}

isdigit(ch) == \E d \in 1..10 : DigitChar[d] = ch

max_digits == 11

\* skip_until_next_line, errcode being the error found so far.
RECURSIVE skip_until_next_line_from(_, _)
skip_until_next_line_from(in, errcode) ==
    IF in = <<>>
    THEN [error |-> "ENCOUNTERED_EOF", stdin |-> <<>>]
    ELSE IF Head(in) = "\n"
    THEN [error |-> errcode, stdin |-> Tail(in)]
    ELSE skip_until_next_line_from(
             Tail(in), IF isspace(Head(in)) THEN errcode ELSE "INVALID_VALUE")

\* Faulty variant of skip_until_next_line: the newline it stops at is left
\* unread.
skip_until_next_line_keeps_newline(in) ==
    IF skip_until_next_line_from(in, "NO_ERROR").error = "ENCOUNTERED_EOF"
    THEN skip_until_next_line_from(in, "NO_ERROR")
    ELSE [error |-> skip_until_next_line_from(in, "NO_ERROR").error,
          stdin |-> <<"\n">> \o skip_until_next_line_from(in, "NO_ERROR").stdin]

skip_until_next_line(in) == skip_until_next_line_from(in, "NO_ERROR")

RECURSIVE skip_white_characters(_)
skip_white_characters(in) ==
    IF in = <<>>
    THEN <<>>
    ELSE IF isspace(Head(in)) /\ Head(in) # "\n"
    THEN skip_white_characters(Tail(in))
    ELSE in

\* What read_uint32_digits returns after its loop.
read_uint32_digits_end(in, buffer, first_char_zero) ==
    IF Len(buffer) = 0
    THEN IF ~first_char_zero
         THEN [error |-> "INVALID_VALUE", stdin |-> in, buffer |-> buffer]
         ELSE [error |-> "NO_ERROR", stdin |-> in, buffer |-> <<"0">>]
    ELSE [error |-> "NO_ERROR", stdin |-> in, buffer |-> buffer]

\* The loop of read_uint32_digits; i is Len(buffer).
RECURSIVE read_uint32_digits_from(_, _, _)
read_uint32_digits_from(in, buffer, first_char_zero) ==
    IF in = <<>>
    THEN [error |-> "ENCOUNTERED_EOF", stdin |-> <<>>, buffer |-> buffer]
    ELSE IF Len(buffer) = 0 /\ Head(in) = "0"
    THEN read_uint32_digits_from(Tail(in), buffer, TRUE)
    ELSE IF ~isdigit(Head(in))
    THEN IF ~isspace(Head(in))
         THEN [error |-> "INVALID_VALUE", stdin |-> in, buffer |-> buffer]
         ELSE read_uint32_digits_end(in, buffer, first_char_zero)
    ELSE IF Len(buffer) + 1 > max_digits
    THEN [error |-> "INVALID_VALUE", stdin |-> Tail(in),
          buffer |-> Append(buffer, Head(in))]
    ELSE read_uint32_digits_from(Tail(in), Append(buffer, Head(in)),
                                 first_char_zero)

read_uint32_digits(in) == read_uint32_digits_from(in, <<>>, FALSE)

\* strtoul on a sequence of digits.
RECURSIVE strtoul(_)
strtoul(buffer) ==
    IF buffer = <<>>
    THEN 0
    ELSE strtoul(SubSeq(buffer, 1, Len(buffer) - 1)) * 10
             + (CHOOSE d \in 0..9 : DigitChar[d + 1] = buffer[Len(buffer)])

\* The digits stand for a number above UINT32_MAX = 4294967295.  (buffer
\* has no leading zero unless it is <<"0">>.)
above_UINT32_MAX(buffer) ==
    \/ Len(buffer) > 10
    \/ /\ Len(buffer) = 10
       /\ \/ strtoul(SubSeq(buffer, 1, 9)) > 429496729
          \/ /\ strtoul(SubSeq(buffer, 1, 9)) = 429496729
             /\ strtoul(<<buffer[10]>>) > 5

\* read_uint32 once the digits were read.
read_uint32_value(d) ==
    IF d.error # "NO_ERROR"
    THEN [error |-> d.error, stdin |-> d.stdin, value |-> 0]
    ELSE IF above_UINT32_MAX(d.buffer)
    THEN [error |-> "INVALID_VALUE", stdin |-> d.stdin, value |-> 0]
    ELSE [error |-> "NO_ERROR", stdin |-> d.stdin, value |-> strtoul(d.buffer)]

read_uint32(in) == read_uint32_value(read_uint32_digits(skip_white_characters(in)))

\* strchr(allowed_commands, ch) finds every character of the string and its
\* terminating NUL.
strchr(allowed_commands, ch) == ch = NUL \/ ch \in allowed_commands

read_command_char(in, allowed_commands) ==
    IF in = <<>>
    THEN [error |-> "ENCOUNTERED_EOF", stdin |-> <<>>, command |-> NUL]
    ELSE IF Head(in) = "\n"
    THEN [error |-> "LINE_IGNORED", stdin |-> Tail(in), command |-> NUL]
    ELSE IF Head(in) = "#"
    THEN [error |-> "LINE_IGNORED",
          stdin |-> skip_until_next_line(Tail(in)).stdin, command |-> NUL]
    ELSE IF ~strchr(allowed_commands, Head(in))
    THEN [error |-> "INVALID_VALUE",
          stdin |-> skip_until_next_line(Tail(in)).stdin, command |-> NUL]
    ELSE [error |-> "NO_ERROR", stdin |-> Tail(in), command |-> Head(in)]

get_command_arguments_count(command) ==
    IF command = "B" \/ command = "I"
    THEN 4
    ELSE IF command = "g" \/ command = "m"
    THEN 3
    ELSE IF command = "b" \/ command = "f" \/ command = "q"
    THEN 1
    ELSE 0

\* The loop of read_arguments; r is what read_uint32 returned for the
\* argument after args.
RECURSIVE read_arguments_from(_, _, _)
read_arguments_next(r, arguments_count, args) ==
    IF r.error = "NO_ERROR"
    THEN read_arguments_from(r.stdin, arguments_count, Append(args, r.value))
    ELSE IF r.error = "ENCOUNTERED_EOF"
    THEN [error |-> "ENCOUNTERED_EOF", stdin |-> r.stdin, args |-> args]
    ELSE [error |-> r.error, stdin |-> skip_until_next_line(r.stdin).stdin,
          args |-> args]

read_arguments_from(in, arguments_count, args) ==
    IF Len(args) = arguments_count
    THEN [error |-> "NO_ERROR", stdin |-> in, args |-> args]
    ELSE read_arguments_next(read_uint32(in), arguments_count, args)

\* read_arguments.  getchar returns EOF at the end of the input, which is
\* not a space; pushing EOF back does nothing.
read_arguments(command, in) ==
    IF get_command_arguments_count(command) = 0
    THEN [error |-> "NO_ERROR", stdin |-> in, args |-> <<>>]
    ELSE IF in = <<>> \/ ~isspace(Head(in)) \/ Head(in) = "\n"
    THEN [error |-> "INVALID_VALUE", stdin |-> skip_until_next_line(in).stdin,
          args |-> <<>>]
    ELSE read_arguments_from(Tail(in), get_command_arguments_count(command),
                             <<>>)

\* text_input_read_next_command once the command character c and the
\* arguments a were read; l is what skip_until_next_line returns after
\* the arguments.
text_input_read_next_command_end(c, a, l) ==
    IF a.error # "NO_ERROR"
    THEN [error |-> "INVALID_VALUE", stdin |-> a.stdin, command |-> c.command,
          args |-> a.args]
    ELSE IF l.error # "NO_ERROR"
    THEN [error |-> "INVALID_VALUE", stdin |-> l.stdin, command |-> c.command,
          args |-> a.args]
    ELSE [error |-> "NO_ERROR", stdin |-> l.stdin, command |-> c.command,
          args |-> a.args]

text_input_read_next_command_arguments(c, a) ==
    text_input_read_next_command_end(c, a, skip_until_next_line(a.stdin))

text_input_read_next_command_command(c) ==
    IF c.error # "NO_ERROR"
    THEN [error |-> c.error, stdin |-> c.stdin, command |-> c.command,
          args |-> <<>>]
    ELSE text_input_read_next_command_arguments(
             c, read_arguments(c.command, c.stdin))

\* text_input_read_next_command, which its callers know as
\* read_next_command.
text_input_read_next_command(in, allowed_commands) ==
    text_input_read_next_command_command(read_command_char(in, allowed_commands))

----------------------------------------------------------------------------
\* batch_mode.c

BATCH_COMMAND_IDENTIFIERS == {"m", "g", "b", "f", "q", "p"}

\* What a bool printed with %u or cast to uint64_t is.
unsigned_of(b) == IF b THEN 1 ELSE 0

\* run_move_or_golden_move once the move was made.
move_printed(r) ==
    [error |-> "NO_ERROR", g |-> r.g, out |-> <<<<"stdout", "result", unsigned_of(r.ret)>>>>]

run_move_or_golden_move(gm, command, player, x, y) ==
    IF command = "m"
    THEN move_printed(gamma_move(gm, player, x, y))
    ELSE move_printed(gamma_golden_move(gm, player, x, y))

run_busy_free_fields_or_golden_possible(gm, command, player) ==
    IF command = "b"
    THEN <<<<"stdout", "result", gamma_busy_fields(gm, player)>>>>
    ELSE IF command = "f"
    THEN <<<<"stdout", "result", gamma_free_fields(gm, player)>>>>
    ELSE <<<<"stdout", "result",
             unsigned_of(gamma_golden_possible(gm, player))>>>>

\* What run_command does with the board gamma_board returned.
board_printed(gm, rendered, failed) ==
    IF rendered.null
    THEN [error |-> failed, g |-> gm, out |-> <<>>]
    ELSE [error |-> "NO_ERROR", g |-> gm,
          out |-> <<<<"stdout", "board", rendered.str>>>>]

\* Faulty variant of run_command: a board that cannot be rendered is
\* reported as the end of the input.
run_command_rendering_ends(gm, command, args, fail) ==
    IF command = "m" \/ command = "g"
    THEN run_move_or_golden_move(gm, command, args[1], args[2], args[3])
    ELSE IF command = "b" \/ command = "f" \/ command = "q"
    THEN [error |-> "NO_ERROR", g |-> gm,
          out |-> run_busy_free_fields_or_golden_possible(gm, command, args[1])]
    ELSE board_printed(gm, gamma_board(gm, fail), "ENCOUNTERED_EOF")

\* run_command; fail tells which realloc call of gamma_board fails, 0 for
\* none.
run_command(gm, command, args, fail) ==
    IF command = "m" \/ command = "g"
    THEN run_move_or_golden_move(gm, command, args[1], args[2], args[3])
    ELSE IF command = "b" \/ command = "f" \/ command = "q"
    THEN [error |-> "NO_ERROR", g |-> gm,
          out |-> run_busy_free_fields_or_golden_possible(gm, command, args[1])]
    ELSE board_printed(gm, gamma_board(gm, fail), "INVALID_VALUE")

\* One round of the loop of run_batch_mode, n being the line number and c
\* what read_next_command returned: the error the round ends with, the
\* game and what was written.
run_batch_mode_executed(n, r) ==
    [error |-> r.error, g |-> r.g,
     out |-> IF r.error # "NO_ERROR" THEN <<<<"stderr", "ERROR", n>>>> ELSE r.out]

run_batch_mode_round(gm, n, c, fail) ==
    IF c.error = "NO_ERROR"
    THEN run_batch_mode_executed(n, run_command(gm, c.command, c.args, fail))
    ELSE [error |-> c.error, g |-> gm,
          out |-> IF c.error = "INVALID_VALUE"
                  THEN <<<<"stderr", "ERROR", n>>>>
                  ELSE <<>>]

----------------------------------------------------------------------------
\* gamma_main.c

GAME_MODE_IDENTIFIERS == {"B", "I"}

\* One round of the loop of create_game_struct: what gamma_new returned.
create_game_struct_created(a) ==
    IF a.g.null
    THEN [error |-> "MEMORY_ERROR", g |-> NullGame, heap |-> a.heap]
    ELSE [error |-> "NO_ERROR", g |-> a.g, heap |-> a.heap]

\* One round of the loop of create_game_struct once the line was read as
\* c; blocks are the allocated blocks and fail the allocation of gamma_new
\* that fails.
create_game_struct_round(c, blocks, fail) ==
    IF c.error # "NO_ERROR"
    THEN [error |-> c.error, g |-> NullGame, heap |-> blocks]
    ELSE IF ~gamma_game_new_arguments_valid(c.args[1], c.args[2], c.args[3],
                                            c.args[4])
    THEN [error |-> "INVALID_VALUE", g |-> NullGame, heap |-> blocks]
    ELSE create_game_struct_created(
             gamma_new_alloc(blocks, c.args[1], c.args[2], c.args[3], c.args[4],
                             fail))

----------------------------------------------------------------------------
\* the engine driven by arbitrary calls

\* The arguments of gamma_new.
NewArgs ==
    {a \in (1..MaxWidth) \X (1..MaxHeight) \X (1..MaxPlayers) \X (1..MaxAreas) :
        a[1] * a[2] <= MaxCells}

\* The (player, x, y) a caller passes: every valid triple, and one triple
\* for each way of being out of range.
CallArgs(gm) ==
    ((1..gm.players_num) \X (0..(gm.width - 1)) \X (0..(gm.height - 1)))
        \cup {<<0, 0, 0>>, <<gm.players_num + 1, 0, 0>>,
               <<1, gm.width, 0>>, <<1, 0, gm.height>>}

\* golden_count[p]: how many gamma_golden_move calls of player p returned
\* true so far (an observer, counted up to 2).
CountGolden(gc, player, r) ==
    IF r.ret THEN [gc EXCEPT ![player] = IF @ < 2 THEN @ + 1 ELSE @] ELSE gc

\* The engine is driven as a library: there is no main.
NoProgram ==
    /\ pc = "library"
    /\ stdin = <<>>
    /\ line = 0
    /\ error = "NO_ERROR"
    /\ field_x = 0
    /\ field_y = 0
    /\ current_player = 0
    /\ advance_player = FALSE
    /\ error_message = ""
    /\ out = <<>>
    /\ exit_code = NULL

Created(r) ==
    /\ g = r.g
    /\ heap = r.heap
    /\ golden_count = [p \in 1..MaxPlayers |-> 0]
    /\ NoProgram

Init ==
    \E a \in NewArgs :
        Created(gamma_new_alloc({}, a[1], a[2], a[3], a[4], NoBlock))

\* A call returns: the game is as the call left it (a call refused at the
\* pre-check leaves the state as it is).
Returned(op, null, a, r) ==
    /\ g' = (IF null THEN g ELSE r.g)
    /\ heap' = heap
    /\ UNCHANGED program
    /\ golden_count' = (IF op = "gamma_golden_move"
                        THEN CountGolden(golden_count, a[1], r)
                        ELSE golden_count)

Move(a) == Returned("gamma_move", FALSE, a, gamma_move(g, a[1], a[2], a[3]))

GoldenMove(a) ==
    Returned("gamma_golden_move", FALSE, a, gamma_golden_move(g, a[1], a[2], a[3]))

\* A call on a null game pointer: the game the caller does have is untouched.
MoveNull(a) ==
    Returned("gamma_move", TRUE, a, gamma_move(NullGame, a[1], a[2], a[3]))

GoldenMoveNull(a) ==
    Returned("gamma_golden_move", TRUE, a,
             gamma_golden_move(NullGame, a[1], a[2], a[3]))

Next ==
    \/ \E a \in CallArgs(g) : Move(a)
    \/ \E a \in CallArgs(g) : GoldenMove(a)
    \/ MoveNull(<<1, 0, 0>>)
    \/ GoldenMoveNull(<<1, 0, 0>>)

Spec == Init /\ [][Next]_vars

\* Games with sides near 2^16.  Of the board only the rows and columns
\* below WindowSize are represented; gamma_move is called on the fields
\* whose neighbours, and the neighbours of those, lie among them.
WideSides == {1, WideSide, WideSide + 1}

WideArgs == WideSides \X WideSides \X (1..MaxPlayers) \X (1..MaxAreas)

Clip(n) == IF n < WindowSize THEN n ELSE WindowSize

wide_game(width, height, players, areas) ==
    [gamma_new(Clip(width), Clip(height), players, areas)
        EXCEPT !.width = width, !.height = height]

WideCallArgs(gm) == (1..gm.players_num) \X (0..1) \X (0..1)

InitWide ==
    \E a \in WideArgs :
        Created([g |-> wide_game(a[1], a[2], a[3], a[4]),
                 heap |-> gamma_new_alloc({}, Clip(a[1]), Clip(a[2]), a[3], a[4],
                                          NoBlock).heap])

NextWide == \E a \in WideCallArgs(g) : Move(a)

SpecWide == InitWide /\ [][NextWide]_vars

\* The life of a game: the caller holds no game, calls gamma_new with any
\* arguments, 0 included, and with any one allocation failing or none,
\* plays on the game it got, and deletes it.
NewArgsAny ==
    {a \in (0..MaxWidth) \X (0..MaxHeight) \X (0..MaxPlayers) \X (0..MaxAreas) :
        a[1] * a[2] <= MaxCells}

Failures == {NoBlock, GameBlock, PlayersBlock, BoardBlock} \cup RowBlocks(MaxHeight)

InitLife ==
    /\ g = NullGame
    /\ heap = {}
    /\ golden_count = [p \in 1..MaxPlayers |-> 0]
    /\ NoProgram

NewReturned(r) ==
    /\ g' = r.g
    /\ heap' = r.heap
    /\ golden_count' = [p \in 1..MaxPlayers |-> 0]
    /\ UNCHANGED program

New(a, fail) ==
    /\ g.null
    /\ NewReturned(gamma_new_alloc(heap, a[1], a[2], a[3], a[4], fail))

Delete ==
    /\ g' = NullGame
    /\ heap' = gamma_delete(heap, g)
    /\ golden_count' = [p \in 1..MaxPlayers |-> 0]
    /\ UNCHANGED program

Play == ~g.null /\ Next

NextLife ==
    \/ \E a \in NewArgsAny : \E fail \in Failures : New(a, fail)
    \/ Delete
    \/ Play

SpecLife == InitLife /\ [][NextLife]_vars

\* Games with players of one, two and three digits, for the renderer:
\* ManyPlayers players, of whom the players of Movers move.
ManyPlayers == 100

Movers == {1, 10, ManyPlayers}

ManyArgs ==
    {a \in (1..MaxWidth) \X (1..MaxHeight) \X {ManyPlayers} \X (1..MaxAreas) :
        a[1] * a[2] <= MaxCells}

MoverCallArgs(gm) == Movers \X (0..(gm.width - 1)) \X (0..(gm.height - 1))

InitBoard ==
    \E a \in ManyArgs :
        Created(gamma_new_alloc({}, a[1], a[2], a[3], a[4], NoBlock))

NextBoard == \E a \in MoverCallArgs(g) : Move(a)

SpecBoard == InitBoard /\ [][NextBoard]_vars

\* Games of WrapWidth columns and WrapHeight rows: width * height is 2^32,
\* 0 as a uint32_t.
WrapWidth == 1073741824

WrapHeight == 4

InitWrap ==
    \E a \in {WrapWidth} \X {WrapHeight} \X (1..MaxPlayers) \X (1..MaxAreas) :
        Created([g |-> wide_game(a[1], a[2], a[3], a[4]),
                 heap |-> gamma_new_alloc({}, Clip(a[1]), Clip(a[2]), a[3], a[4],
                                          NoBlock).heap])

SpecWrap == InitWrap /\ [][NextWide]_vars

\* Games of ThreePlayers players on boards of at most ThreeCells fields:
\* a golden move there has a mover, a previous owner and a third player.
\* Every player may hold MaxAreas areas.
ThreePlayers == 3

ThreeCells == 4

ThreeArgs ==
    {a \in (1..MaxWidth) \X (1..MaxHeight) \X {ThreePlayers} \X {MaxAreas} :
        a[1] * a[2] <= ThreeCells}

ThreeCallArgs(gm) ==
    (1..gm.players_num) \X (0..(gm.width - 1)) \X (0..(gm.height - 1))

InitThree ==
    \E a \in ThreeArgs :
        /\ g = gamma_new(a[1], a[2], a[3], a[4])
        /\ heap = gamma_new_alloc({}, a[1], a[2], a[3], a[4], NoBlock).heap
        /\ golden_count = [p \in 1..ThreePlayers |-> 0]
        /\ NoProgram

NextThree ==
    \/ \E a \in ThreeCallArgs(g) : Move(a)
    \/ \E a \in ThreeCallArgs(g) : GoldenMove(a)

SpecThree == InitThree /\ [][NextThree]_vars

\* One-player games on one row of FindWidth fields, where no areas limit
\* is ever reached: two areas of two fields joined by a move on the field
\* between them give a find-union tree of depth 2.  With one player there
\* is no field a golden move could take.
FindWidth == 6

FindCallArgs(gm) == (1..gm.players_num) \X (0..(gm.width - 1)) \X {0}

InitFind ==
    /\ g = gamma_new(FindWidth, 1, 1, FindWidth)
    /\ heap = gamma_new_alloc({}, FindWidth, 1, 1, FindWidth, NoBlock).heap
    /\ golden_count = [p \in 1..MaxPlayers |-> 0]
    /\ NoProgram

NextFind == \E a \in FindCallArgs(g) : Move(a)

SpecFind == InitFind /\ [][NextFind]_vars

\* The interactive program: main has read the line I width height players
\* areas, created the game and entered run_io_loop.
\* The games have at most IoPlayers players, and IoSize bounds the fields
\* times the players.
IoSize == 6

IoPlayers == 3

IoArgs ==
    {a \in (1..MaxWidth) \X (1..MaxHeight) \X (1..IoPlayers) \X {1, MaxAreas} :
        a[1] * a[2] * a[3] <= IoSize}

Started(at, n, r) ==
    /\ g = r.g
    /\ heap = r.heap
    /\ golden_count = [p \in 1..MaxPlayers |-> 0]
    /\ pc = at
    /\ line = n
    /\ error = "NO_ERROR"
    /\ field_x = 0
    /\ field_y = 0
    /\ current_player = 1
    /\ advance_player = FALSE
    /\ error_message = ""
    /\ out = <<>>
    /\ exit_code = NULL

\* run_io_loop has returned loop_error: run_interactive_mode restores the
\* terminal, prints the summary and returns to main.
LoopReturned(loop_error) ==
    \E cleanup_error \in {"NO_ERROR", "TERMINAL_ERROR"} : \E fail \in 0..1 :
        LET e == run_interactive_mode_end(g', loop_error, cleanup_error,
                                          gamma_board(g', fail))
        IN /\ pc' = "gamma_delete"
           /\ error' = e.error
           /\ out' = e.out

\* getchar returns EOF.  advance_player, a local of the round, is not set
\* in a round that returns: it is FALSE, no turn having ended.
IoEndOfFile(in) ==
    /\ pc = "run_io_loop"
    /\ in = <<>>
    /\ g' = g
    /\ stdin' = <<>>
    /\ advance_player' = FALSE
    /\ UNCHANGED <<heap, golden_count, line, field_x, field_y, current_player,
                   error_message, exit_code>>
    /\ LoopReturned("ENCOUNTERED_EOF")

\* getchar returns the end-of-transmission character.
IoEndOfTransmission(in) ==
    /\ pc = "run_io_loop"
    /\ in # <<>>
    /\ Head(in) = END_OF_TRANSMISSION
    /\ g' = g
    /\ stdin' = Tail(in)
    /\ advance_player' = FALSE
    /\ UNCHANGED <<heap, golden_count, line, field_x, field_y, current_player,
                   error_message, exit_code>>
    /\ LoopReturned("NO_ERROR")

\* respond_to_key has left r and advance_player_number, if it was called,
\* a.
IoAdvanced(r, a) ==
    /\ g' = r.g
    /\ stdin' = r.stdin
    /\ field_x' = r.field_x
    /\ field_y' = r.field_y
    /\ advance_player' = r.advance_player
    /\ error_message' = r.error_message
    /\ current_player' = a.player
    /\ UNCHANGED <<heap, golden_count, line, exit_code>>
    /\ IF a.ret
       THEN pc' = "run_io_loop" /\ error' = error /\ out' = <<>>
       ELSE LoopReturned("NO_ERROR")

IoResponded(r) ==
    IoAdvanced(r, IF r.advance_player
                  THEN advance_player_number(r.g, current_player)
                  ELSE [ret |-> TRUE, player |-> current_player, checks |-> 0])

\* One round of the loop of run_io_loop on any other character.
IoKey(in) ==
    /\ pc = "run_io_loop"
    /\ in # <<>>
    /\ Head(in) # END_OF_TRANSMISSION
    /\ IoResponded(respond_to_key(Head(in), g, Tail(in), field_x, field_y,
                                  current_player))

\* main, from the return of the game mode on: gamma_delete and the exit
\* code.
MainReturns ==
    /\ pc = "gamma_delete"
    /\ pc' = "exit"
    /\ heap' = gamma_delete(heap, g)
    /\ g' = NullGame
    /\ exit_code' = (IF error # "NO_ERROR" THEN 1 ELSE 0)
    /\ out' = <<>>
    /\ UNCHANGED <<golden_count, stdin, line, error, field_x, field_y,
                   current_player, advance_player, error_message>>

\* What a player types at once: a key, an arrow key's sequence, or nothing
\* more (the input ends).
Arrow(last) == <<ESCAPE, OPENING_SQUARE_BRACKET, last>>

KeyPresses ==
    {<<>>, <<" ">>, <<"c">>, <<"C">>, <<"g">>, <<"G">>, <<"x">>,
     <<END_OF_TRANSMISSION>>,
     Arrow(ARROW_UP), Arrow(ARROW_DOWN), Arrow(ARROW_RIGHT), Arrow(ARROW_LEFT)}

\* What a file may hold besides: sequences that break off or go on with
\* another character.
BrokenKeyPresses ==
    {<<ESCAPE>>, <<ESCAPE, "x">>, <<ESCAPE, OPENING_SQUARE_BRACKET>>, Arrow("x")}

\* The characters the loop reads from: what is left unread, or else what
\* the player types next.
Typed(k) == IF stdin = <<>> THEN k ELSE stdin

InitInteractive ==
    /\ \E a \in IoArgs :
           Started("run_io_loop", 1,
                   gamma_new_alloc({}, a[1], a[2], a[3], a[4], NoBlock))
    /\ stdin = <<>>

NextInteractive ==
    \/ \E k \in KeyPresses : IoEndOfFile(Typed(k))
    \/ \E k \in KeyPresses : IoEndOfTransmission(Typed(k))
    \/ \E k \in KeyPresses : IoKey(Typed(k))
    \/ MainReturns

SpecInteractive == InitInteractive /\ [][NextInteractive]_vars

\* The interactive program reading a file: a game of EndgameSide columns
\* and rows and EndgamePlayers players with one area each, and an input
\* that is two key presses or the moves of one whole game.
EndgameSide == 3

EndgamePlayers == 3

RECURSIVE Concat(_)
Concat(ss) == IF ss = <<>> THEN <<>> ELSE Head(ss) \o Concat(Tail(ss))

\* Player 1 takes (0,0); player 2 takes (1,0); player 3 takes (2,0), which
\* player 2 takes with its golden move; player 2 takes (2,1), which player
\* 3 takes with its golden move; players 2 and 3 fill the board, player 1
\* skipping its turns.
EndgameScript ==
    Concat(<<
        <<" ">>,
        Arrow(ARROW_RIGHT), <<" ">>,
        Arrow(ARROW_RIGHT), <<" ">>,
        <<"c">>,
        <<"g">>,
        <<"c">>,
        <<"c">>,
        Arrow(ARROW_UP), <<" ">>,
        <<"g">>,
        <<"c">>,
        Arrow(ARROW_LEFT), <<" ">>,
        Arrow(ARROW_RIGHT), Arrow(ARROW_UP), <<" ">>,
        <<"c">>,
        Arrow(ARROW_LEFT), Arrow(ARROW_LEFT), Arrow(ARROW_DOWN), <<" ">>,
        Arrow(ARROW_UP), Arrow(ARROW_RIGHT), <<" ">>,
        <<"c">>,
        Arrow(ARROW_LEFT), <<" ">>,
        <<"c">> >>)

Scripts ==
    {EndgameScript} \cup {k \o l : k, l \in KeyPresses \cup BrokenKeyPresses}

InitScript ==
    /\ Started("run_io_loop", 1,
               gamma_new_alloc({}, EndgameSide, EndgameSide, EndgamePlayers, 1,
                               NoBlock))
    /\ stdin \in Scripts

NextScript ==
    \/ IoEndOfFile(stdin)
    \/ IoEndOfTransmission(stdin)
    \/ IoKey(stdin)
    \/ MainReturns

SpecScript == InitScript /\ [][NextScript]_vars

\* The whole program: main reads lines until a game is created, then runs
\* the game in batch mode or in interactive mode, deletes the game and
\* returns.

\* A round of the loop of create_game_struct has read the line as c and
\* ended as r.  create_game_struct returns at the end of the input, and
\* main returns 0, or with the game; after any other error the loop goes
\* on.  run_batch_mode begins by writing OK and the line number.
CreateDone(c, r) ==
    /\ line' = line + 1
    /\ stdin' = c.stdin
    /\ error' = r.error
    /\ g' = r.g
    /\ heap' = r.heap
    /\ out' = (IF r.error = "NO_ERROR"
               THEN IF c.command = "B"
                    THEN <<<<"stdout", "OK", line + 1>>>>
                    ELSE <<>>
               ELSE IF r.error = "ENCOUNTERED_EOF" \/ r.error = "LINE_IGNORED"
               THEN <<>>
               ELSE <<<<"stderr", "ERROR", line + 1>>>>)
    /\ pc' = (IF r.error = "ENCOUNTERED_EOF"
              THEN "exit"
              ELSE IF r.error # "NO_ERROR"
              THEN "create_game_struct"
              ELSE IF c.command = "B"
              THEN "run_batch_mode"
              ELSE "run_io_loop")
    /\ exit_code' = (IF r.error = "ENCOUNTERED_EOF" THEN 0 ELSE exit_code)
    /\ UNCHANGED <<golden_count, field_x, field_y, current_player,
                   advance_player, error_message>>

CreateRead(c, fail) == CreateDone(c, create_game_struct_round(c, heap, fail))

CreateLine ==
    /\ pc = "create_game_struct"
    /\ \E fail \in Failures :
           CreateRead(text_input_read_next_command(stdin, GAME_MODE_IDENTIFIERS),
                      fail)

\* A round of the loop of run_batch_mode has read the line as c and ended
\* as r; at the end of the input run_batch_mode returns to main, whose
\* error is NO_ERROR.
BatchDone(c, r) ==
    /\ line' = line + 1
    /\ stdin' = c.stdin
    /\ g' = r.g
    /\ out' = r.out
    /\ error' = (IF r.error = "ENCOUNTERED_EOF" THEN "NO_ERROR" ELSE r.error)
    /\ pc' = (IF r.error = "ENCOUNTERED_EOF" THEN "gamma_delete"
                                             ELSE "run_batch_mode")
    /\ UNCHANGED <<heap, golden_count, field_x, field_y, current_player,
                   advance_player, error_message, exit_code>>

BatchRead(c, fail) == BatchDone(c, run_batch_mode_round(g, line + 1, c, fail))

BatchLine ==
    /\ pc = "run_batch_mode"
    /\ \E fail \in 0..1 :
           BatchRead(text_input_read_next_command(stdin,
                                                  BATCH_COMMAND_IDENTIFIERS),
                     fail)

\* The inputs: up to MaxLines of the lines of LineTexts, the last of which
\* may lack its newline.
MaxLines == 3

CommandLine(command, args) ==
    <<command>> \o Concat([i \in 1..Len(args) |-> <<" ">> \o Decimal(args[i])])
        \o <<"\n">>

LineTexts ==
    {CommandLine("B", <<2, 1, 2, 1>>), CommandLine("I", <<2, 1, 2, 1>>),
     CommandLine("B", <<0, 1, 1, 1>>), CommandLine("m", <<1, 0, 0>>),
     CommandLine("g", <<2, 0, 0>>), CommandLine("f", <<2>>),
     CommandLine("p", <<>>), CommandLine("m", <<1>>), <<"\n">>, <<"#", "\n">>,
     <<"p">>, <<" ", END_OF_TRANSMISSION>>}

Inputs ==
    {Concat(ls) : ls \in UNION {[1..n -> LineTexts] : n \in 0..MaxLines}}

InitMain ==
    /\ Started("create_game_struct", 0, [g |-> NullGame, heap |-> {}])
    /\ stdin \in Inputs

NextMain ==
    \/ CreateLine
    \/ BatchLine
    \/ IoEndOfFile(stdin)
    \/ IoEndOfTransmission(stdin)
    \/ IoKey(stdin)
    \/ MainReturns

SpecMain == InitMain /\ [][NextMain]_vars

\* The program reading lines of every kind: the input is nothing or the
\* line that starts a game in batch mode, then up to ReadLines lines, each
\* valid, ignored or malformed in one way, the last of which may lack its
\* newline.
ReadLines == 2

MalformedLineTexts ==
    {CommandLine("m", <<1, 0, 0>>),
     CommandLine("p", <<>>),
     <<"\n">>,
     <<"#", " ", "m", "\n">>,
     <<"x", "\n">>,
     <<" ", "m", " ", "1", " ", "0", " ", "0", "\n">>,
     <<"m", "1", " ", "0", " ", "0", "\n">>,
     CommandLine("m", <<1>>),
     CommandLine("m", <<1, 0, 0, 7>>),
     <<"m", "\n">>,
     <<"f", " ", "0", "0", "1", " ", " ", "\n">>,
     <<"f", " ", "1", "x", "\n">>,
     <<"f", " ", "1", "2", "3", "4", "5", "6", "7", "8", "9", "0", "1", "2", "\n">>,
     <<"f", " ", "4", "2", "9", "4", "9", "6", "7", "2", "9", "6", "\n">>,
     <<"p", " ", "\t", "\n">>,
     <<"m", " ", "-", "1", " ", "0", " ", "0", "\n">>,
     <<"p">>}

LineInputs ==
    {start \o Concat(ls) :
        start \in {<<>>, CommandLine("B", <<2, 1, 2, 1>>)},
        ls \in UNION {[1..n -> MalformedLineTexts] : n \in 0..ReadLines}}

InitLines ==
    /\ Started("create_game_struct", 0, [g |-> NullGame, heap |-> {}])
    /\ stdin \in LineInputs

NextLines ==
    \/ CreateLine
    \/ BatchLine
    \/ MainReturns

SpecLines == InitLines /\ [][NextLines]_vars

----------------------------------------------------------------------------
\* What the claims speak of, read off the board alone.

Cells(gm) == (0..(gm.width - 1)) \X (0..(gm.height - 1))

ValidPlayers(gm) == 1..gm.players_num

\* The owner of every field, 0 for an empty one.
OwnerMap(gm) ==
    [c \in Cells(gm) |->
        IF gm.board[c[2]][c[1]].empty THEN 0 ELSE gm.board[c[2]][c[1]].player]

Adjacent(c, d) ==
    \/ c[1] = d[1] /\ (c[2] = d[2] + 1 \/ d[2] = c[2] + 1)
    \/ c[2] = d[2] /\ (c[1] = d[1] + 1 \/ d[1] = c[1] + 1)

\* Flood fill: the fields of S joined to the fields of R by a path within S.
RECURSIVE Flood(_, _)
Flood(S, R) ==
    LET more == R \cup {d \in S : \E e \in R : Adjacent(d, e)}
    IN IF more = R THEN R ELSE Flood(S, more)

OwnedIn(owner, p) == {c \in DOMAIN owner : owner[c] = p}

\* The 4-connected areas of player p under an owner map.
AreasIn(owner, p) == {Flood(OwnedIn(owner, p), {c}) : c \in OwnedIn(owner, p)}

NumAreas(gm, p) == Cardinality(AreasIn(OwnerMap(gm), p))

Owned(gm, p) == OwnedIn(OwnerMap(gm), p)

\* The empty fields with at least one neighbour owned by p.
BorderEmpty(gm, p) ==
    {c \in Cells(gm) : OwnerMap(gm)[c] = 0 /\ \E d \in Owned(gm, p) : Adjacent(c, d)}

\* The calls a state is examined under: every argument triple, on the game
\* and on a null pointer.
Calls(gm) ==
    {[null |-> n, player |-> a[1], x |-> a[2], y |-> a[3]] :
        n \in BOOLEAN, a \in CallArgs(gm)}

Passed(gm, c) == IF c.null THEN NullGame ELSE gm

MoveOf(gm, c) == gamma_move(Passed(gm, c), c.player, c.x, c.y)

GoldenMoveOf(gm, c) == gamma_golden_move(Passed(gm, c), c.player, c.x, c.y)

CallValid(gm, c) ==
    /\ ~c.null
    /\ c.player \in ValidPlayers(gm)
    /\ <<c.x, c.y>> \in Cells(gm)

\* What a failed call must leave alone: owners, counters and flags.
Observable(gm) ==
    [owner |-> OwnerMap(gm), players |-> gm.players,
     occupied_fields |-> gm.occupied_fields]

----------------------------------------------------------------------------
MoveLegal(gm, c) ==
    /\ CallValid(gm, c)
    /\ OwnerMap(gm)[<<c.x, c.y>>] = 0
    /\ ~(/\ gm.players[player_index(gm, c.player)].areas = gm.max_areas
          /\ ~\E d \in Owned(gm, c.player) : Adjacent(d, <<c.x, c.y>>))

MoveResultOf(gm, c, r) ==
    /\ r.ret <=> MoveLegal(gm, c)
    /\ r.ret => OwnerMap(r.g)[<<c.x, c.y>>] = c.player

C3_MoveResult ==
    \A c \in Calls(g) : MoveResultOf(g, c, MoveOf(g, c))

\* A state with an empty field that a valid player is refused for the areas
\* limit alone.
C3_Witness ==
    \E c \in Calls(g) :
        /\ CallValid(g, c)
        /\ OwnerMap(g)[<<c.x, c.y>>] = 0
        /\ ~MoveOf(g, c).ret

\* C4: gamma_golden_move returns true iff the arguments are valid, the field
\* belongs to another player, the player has made no successful golden move
\* yet and, with the field's owner replaced by the player, every player has at
\* most max_areas areas; on true the field is the player's.
GoldenLegal(gm, gc, c) ==
    /\ CallValid(gm, c)
    /\ OwnerMap(gm)[<<c.x, c.y>>] \notin {0, c.player}
    /\ gc[c.player] = 0
    /\ LET replaced == [OwnerMap(gm) EXCEPT ![<<c.x, c.y>>] = c.player]
       IN \A q \in ValidPlayers(gm) :
              Cardinality(AreasIn(replaced, q)) <= gm.max_areas

GoldenResultOf(gm, gc, c, r) ==
    /\ r.ret <=> GoldenLegal(gm, gc, c)
    /\ r.ret => OwnerMap(r.g)[<<c.x, c.y>>] = c.player

FailedCallOf(gm, r) == ~r.ret => Observable(r.g) = Observable(gm)

C5_FailedCallChangesNothing ==
    \A c \in Calls(g) :
        ~c.null => /\ FailedCallOf(g, MoveOf(g, c))
                   /\ FailedCallOf(g, GoldenMoveOf(g, c))

\* A state in which one golden move is reverted and one move on valid
\* arguments is refused.
C5_Witness ==
    /\ \E c \in Calls(g) : GoldenMoveOf(g, c).site = "reverted"
    /\ \E c \in Calls(g) : CallValid(g, c) /\ ~MoveOf(g, c).ret

\* C6: for every player at most one gamma_golden_move call ever returns
\* true: once one has, every later golden move of that player returns false.
C6_GoldenOnce ==
    /\ \A p \in 1..MaxPlayers : golden_count[p] <= 1
    /\ \A c \in Calls(g) :
           CallValid(g, c) /\ golden_count[c.player] >= 1 => ~GoldenMoveOf(g, c).ret

\* A player that has made its golden move is refused a field of another
\* player that the areas limit would let it take.
C6_Witness ==
    \E c \in Calls(g) :
        /\ CallValid(g, c)
        /\ golden_count[c.player] = 1
        /\ GoldenLegal(g, [golden_count EXCEPT ![c.player] = 0], c)
        /\ ~GoldenMoveOf(g, c).ret

\* C7: gamma_busy_fields(g, p) is the number of fields whose owner is p.
C7_BusyFields ==
    \A p \in ValidPlayers(g) :
        gamma_busy_fields(g, p) = Cardinality(Owned(g, p))

\* A golden move has taken the only field of the other player.
C7_Witness ==
    \E p, q \in ValidPlayers(g) :
        /\ q # p
        /\ golden_count[p] = 1
        /\ Owned(g, q) = {}
        /\ Cardinality(Owned(g, p)) >= 2

\* C8: after every call border_empty_fields of every player is the number of
\* empty fields with at least one neighbour owned by the player.
C8_BorderEmptyFields ==
    \A p \in ValidPlayers(g) :
        g.players[player_index(g, p)].border_empty_fields
            = Cardinality(BorderEmpty(g, p))

\* With no golden move made, a player holds a field between two fields of
\* one and the same other player.
C8_Witness ==
    \E p, q \in ValidPlayers(g) : \E c \in Owned(g, p) :
        /\ q # p
        /\ golden_count[p] = 0 /\ golden_count[q] = 0
        /\ Cardinality({d \in Owned(g, q) : Adjacent(d, c)}) = 2

\* On the boards of Spec, where width * height is below 2^32:
\* gamma_free_fields(g, p) is the number of fields on which gamma_move of p
\* would return true, all empty fields below max_areas, only the empty
\* fields next to a field of p at max_areas.
FreeFieldsSmallBoard ==
    \A p \in ValidPlayers(g) :
        /\ gamma_free_fields(g, p)
               = Cardinality({c \in Cells(g) : gamma_move(g, p, c[1], c[2]).ret})
        /\ gamma_free_fields(g, p)
               = IF NumAreas(g, p) < g.max_areas
                 THEN Cardinality(OwnedIn(OwnerMap(g), 0))
                 ELSE Cardinality(BorderEmpty(g, p))

\* A player at the limit with some, but not all, empty fields open to it.
FreeFieldsSmallBoard_Witness ==
    \E p \in ValidPlayers(g) :
        /\ NumAreas(g, p) = g.max_areas
        /\ gamma_free_fields(g, p) > 0
        /\ gamma_free_fields(g, p) < Cardinality(OwnedIn(OwnerMap(g), 0))

\* C10: for a valid player p gamma_golden_possible is true iff p has made no
\* successful golden move and some other player has occupied_fields > 0.
C10_GoldenPossible ==
    \A p \in ValidPlayers(g) :
        gamma_golden_possible(g, p) <=>
            /\ golden_count[p] = 0
            /\ \E q \in ValidPlayers(g) : q # p /\ gamma_busy_fields(g, q) > 0

\* The highest-numbered player (table index 0) holds fields, nobody else
\* does, and the query answers false for it and true for another player.
C10_Witness ==
    /\ g.players_num = 2
    /\ Owned(g, 2) # {} /\ Owned(g, 1) = {}
    /\ ~gamma_golden_possible(g, 2)
    /\ gamma_golden_possible(g, 1)

\* C11: gamma_golden_possible(g, p) is true iff p has made no golden move and
\* some field of another player can be taken by p with no player going above
\* max_areas, that is iff some gamma_golden_move(g, p, x, y) would return true.
C11_GoldenPossibleIffTarget ==
    \A p \in ValidPlayers(g) :
        gamma_golden_possible(g, p) <=>
            \E c \in Calls(g) : c.player = p /\ GoldenMoveOf(g, c).ret

\* C12: wherever some gamma_golden_move(g, p, x, y) would return true,
\* gamma_golden_possible(g, p) is true: where it is false, no golden move of
\* p returns true.
C12_GoldenPossibleNecessary ==
    ~g.null =>
        \A c \in Calls(g) :
            ~gamma_golden_possible(Passed(g, c), c.player)
                => ~GoldenMoveOf(g, c).ret

\* A golden move that succeeds on the only field another player holds.
C12_Witness ==
    /\ ~g.null
    /\ \E c \in Calls(g) :
           /\ GoldenMoveOf(g, c).ret
           /\ Cardinality(Owned(g, OwnerMap(g)[<<c.x, c.y>>])) = 1
           /\ gamma_golden_possible(g, c.player)

NonEmpty(gm) == {c \in Cells(gm) : OwnerMap(gm)[c] # 0}

\* What a successful golden move of p on a field of q changes in the counts.
GoldenTransfer(gm, after, p, q) ==
    /\ after.occupied_fields = gm.occupied_fields
    /\ Cardinality(NonEmpty(after)) = Cardinality(NonEmpty(gm))
    /\ gamma_busy_fields(after, q) = gamma_busy_fields(gm, q) - 1
    /\ gamma_busy_fields(after, p) = gamma_busy_fields(gm, p) + 1
    /\ Cardinality(Owned(gm, q)) = 1 =>
            /\ gamma_busy_fields(after, q) = 0
            /\ Owned(after, q) = {}
            /\ after.players[player_index(after, q)].areas = 0

GoldenTransferOf(gm, c, r) ==
    r.ret => GoldenTransfer(gm, r.g, c.player, OwnerMap(gm)[<<c.x, c.y>>])

\* C13: a successful gamma_golden_move(g, p, x, y) on a field of q leaves the
\* number of occupied fields unchanged, takes one from gamma_busy_fields(g, q)
\* and adds one to gamma_busy_fields(g, p); when the field was the only one
\* of q, q is left with no field and no area.
C13_GoldenTransfer ==
    ~g.null => \A c \in Calls(g) : GoldenTransferOf(g, c, GoldenMoveOf(g, c))

\* A golden move that succeeds for a player already on the board, on the
\* only field of the other player.
C13_Witness ==
    /\ ~g.null
    /\ \E c \in Calls(g) :
           /\ GoldenMoveOf(g, c).ret
           /\ gamma_busy_fields(g, c.player) > 0
           /\ \E q \in ValidPlayers(g) : Owned(g, q) = {<<c.x, c.y>>}

\* What a successful move of p on (x, y) changes, and what it leaves alone.
MoveEffect(gm, after, p, x, y) ==
    /\ gamma_busy_fields(after, p) = gamma_busy_fields(gm, p) + 1
    /\ \A q \in ValidPlayers(gm) \ {p} :
            /\ gamma_busy_fields(after, q) = gamma_busy_fields(gm, q)
            /\ after.players[player_index(after, q)].areas =
                   gm.players[player_index(gm, q)].areas
            /\ NumAreas(after, q) = NumAreas(gm, q)
    /\ \A d \in Cells(gm) \ {<<x, y>>} : OwnerMap(after)[d] = OwnerMap(gm)[d]

MoveEffectOf(gm, c, r) == r.ret => MoveEffect(gm, r.g, c.player, c.x, c.y)

\* C14: a successful gamma_move(g, p, x, y) adds one to gamma_busy_fields(g, p),
\* leaves gamma_busy_fields(g, q) and the number of areas of every other
\* player q unchanged, and changes the owner of no other field.
C14_MoveEffect ==
    ~g.null => \A c \in Calls(g) : MoveEffectOf(g, c, MoveOf(g, c))

\* A move that succeeds next to a field of the other player.
C14_Witness ==
    /\ ~g.null
    /\ \E c \in Calls(g) :
           /\ MoveOf(g, c).ret
           /\ \E q \in ValidPlayers(g) \ {c.player} :
                  \E d \in Owned(g, q) : Adjacent(d, <<c.x, c.y>>)

RECURSIVE SumBusy(_, _)
SumBusy(gm, n) ==
    IF n = 0 THEN 0 ELSE gamma_busy_fields(gm, n) + SumBusy(gm, n - 1)

\* C15: in every reachable state occupied_fields equals the sum of
\* gamma_busy_fields(g, p) over the players and the number of non-empty
\* fields.
C15_OccupiedTotal ==
    ~g.null =>
        /\ g.occupied_fields = SumBusy(g, g.players_num)
        /\ g.occupied_fields = Cardinality(NonEmpty(g))

\* Both players hold fields and a golden move has been made.
C15_Witness ==
    /\ ~g.null
    /\ g.occupied_fields >= 3
    /\ \A p \in ValidPlayers(g) : gamma_busy_fields(g, p) > 0
    /\ \E p \in ValidPlayers(g) : golden_count[p] = 1

\* What a call with invalid inputs does: the two moves return false with the
\* game as it was, and the queries of a null game or an invalid player
\* return 0 or false.
InvalidCallQuiet(gm, c) ==
    /\ ~MoveOf(gm, c).ret
    /\ MoveOf(gm, c).g = Passed(gm, c)
    /\ ~GoldenMoveOf(gm, c).ret
    /\ GoldenMoveOf(gm, c).g = Passed(gm, c)
    /\ (c.null \/ c.player \notin ValidPlayers(gm)) =>
            /\ gamma_busy_fields(Passed(gm, c), c.player) = 0
            /\ gamma_free_fields(Passed(gm, c), c.player) = 0
            /\ ~gamma_golden_possible(Passed(gm, c), c.player)

\* C16: a call on a null game, with player 0 or a player above players_num,
\* or with x >= width or y >= height is evaluated without reading outside
\* the game and changes nothing: gamma_move and gamma_golden_move return
\* false, gamma_busy_fields and gamma_free_fields return 0,
\* gamma_golden_possible returns false, and gamma_board_width,
\* gamma_board_height and gamma_players_number return 0 for a null game.
C16_InvalidInputs ==
    /\ ~g.null => \A c \in Calls(g) : ~CallValid(g, c) => InvalidCallQuiet(g, c)
    /\ gamma_board_width(NullGame) = 0
    /\ gamma_board_height(NullGame) = 0
    /\ gamma_players_number(NullGame) = 0

\* A player number above players_num whose remainder selects a record that
\* holds fields, with the field asked for empty.
C16_Witness ==
    /\ ~g.null
    /\ \E c \in Calls(g) :
           /\ ~c.null
           /\ c.player = gamma_players_number(g) + 1
           /\ g.players[player_index(g, c.player)].occupied_fields > 0
           /\ g.board[c.y][c.x].empty
           /\ ~MoveOf(g, c).ret

\* The represented fields of a game with sides near 2^16, and their owners;
\* every field that is not represented is empty.
WindowCells(gm) == (0..(Clip(gm.width) - 1)) \X (0..(Clip(gm.height) - 1))

WindowOwner(gm) ==
    [c \in WindowCells(gm) |->
        IF gm.board[c[2]][c[1]].empty THEN 0 ELSE gm.board[c[2]][c[1]].player]

WindowBorderEmpty(gm, p) ==
    {c \in WindowCells(gm) :
        /\ WindowOwner(gm)[c] = 0
        /\ \E d \in OwnedIn(WindowOwner(gm), p) : Adjacent(c, d)}

\* n = a * b, decided without forming the product.
IsProduct(n, a, b) == n % a = 0 /\ n \div a = b

\* C17: for every width and height, when the player has fewer than
\* max_areas areas gamma_free_fields returns width * height -
\* occupied_fields, the product taken in 64 bits.
C17_FreeFieldsExact ==
    \A p \in ValidPlayers(g) :
        g.players[player_index(g, p)].areas < g.max_areas =>
            IsProduct(gamma_free_fields(g, p) + g.occupied_fields,
                      g.width, g.height)

\* The fields gamma_move is called on, on a game with sides near 2^16.
CalledCells(gm) ==
    {c \in WindowCells(gm) : \E a \in WideCallArgs(gm) : c = <<a[2], a[3]>>}

\* C9: on a board of any size gamma_free_fields(g, p) is the number of
\* fields on which gamma_move(g, p, x, y) would return true: all empty
\* fields (width * height less the occupied ones) when p has fewer than
\* max_areas areas, only the empty fields next to a field of p when p has
\* max_areas areas.
C9_FreeFieldsAnySize ==
    \A p \in ValidPlayers(g) :
        /\ \A c \in CalledCells(g) :
               gamma_move(g, p, c[1], c[2]).ret <=>
                   /\ WindowOwner(g)[c] = 0
                   /\ \/ Cardinality(AreasIn(WindowOwner(g), p)) < g.max_areas
                      \/ c \in WindowBorderEmpty(g, p)
        /\ IF Cardinality(AreasIn(WindowOwner(g), p)) < g.max_areas
           THEN IsProduct(gamma_free_fields(g, p)
                              + Cardinality(WindowCells(g) \ OwnedIn(WindowOwner(g), 0)),
                          g.width, g.height)
           ELSE gamma_free_fields(g, p) = Cardinality(WindowBorderEmpty(g, p))

\* C18: gamma_new(width, height, players, areas) returns NULL whenever one
\* of the four parameters is 0 and, no allocation failing, a game for every
\* combination with all four at least 1.
C18_NewArguments ==
    g.null =>
        \A a \in NewArgsAny :
            gamma_new_alloc(heap, a[1], a[2], a[3], a[4], NoBlock).g.null
                <=> \E i \in 1..4 : a[i] = 0

\* The caller has deleted a game and holds none: a gamma_new with areas 0
\* returns NULL, the same call with areas 1 returns a game.
C18_Witness ==
    /\ g.null
    /\ gamma_new_alloc(heap, 1, 1, 1, 0, NoBlock).g.null
    /\ ~gamma_new_alloc(heap, 1, 1, 1, 1, NoBlock).g.null

\* C19: in the state a successful gamma_new returns every field is empty
\* with player 0, its own parent and rank 1, and for every player p
\* gamma_busy_fields is 0, areas and border_empty_fields are 0,
\* golden_move_done is false, gamma_golden_possible is false and
\* gamma_free_fields is width * height.  (No call frees a field, so the
\* states with occupied_fields = 0 are those gamma_new returned.)
C19_FreshGame ==
    g.occupied_fields = 0 =>
        /\ \A c \in WindowCells(g) :
               g.board[c[2]][c[1]] =
                   [empty |-> TRUE, parent |-> c, rank |-> 1, player |-> 0]
        /\ \A p \in ValidPlayers(g) :
               /\ gamma_busy_fields(g, p) = 0
               /\ g.players[player_index(g, p)].areas = 0
               /\ g.players[player_index(g, p)].border_empty_fields = 0
               /\ ~g.players[player_index(g, p)].golden_move_done
               /\ ~gamma_golden_possible(g, p)
               /\ IsProduct(gamma_free_fields(g, p), g.width, g.height)

\* The allocation of block fail is one that gamma_new(.., height, ..) makes.
Reached(height, fail) ==
    fail \in {GameBlock, PlayersBlock, BoardBlock} \cup RowBlocks(height)

\* C20: when an allocation inside gamma_new fails (the game structure, the
\* player table, the array of row pointers or any row), the call returns
\* NULL with every block it allocated freed: while the caller holds no game
\* no block is live.
C20_FailedNewFreesAll ==
    g.null =>
        /\ heap = {}
        /\ \A a \in NewArgsAny : \A fail \in Failures :
               (/\ gamma_game_new_arguments_valid(a[1], a[2], a[3], a[4])
                /\ Reached(a[2], fail)) =>
                   gamma_new_alloc(heap, a[1], a[2], a[3], a[4], fail)
                       = [g |-> NullGame, heap |-> heap]

\* The caller holds no game, and a gamma_new whose second row cannot be
\* allocated returns NULL where the same call without a failure returns a
\* game in five blocks.
C20_Witness ==
    /\ g.null
    /\ gamma_new_alloc(heap, 2, 2, 1, 1, <<"row", 1>>).g.null
    /\ Cardinality(gamma_new_alloc(heap, 2, 2, 1, 1, NoBlock).heap) = 5

\* A gamma_board that returned NULL left no block of its own allocated.
FailedRenderOf(r) == r.null /\ ~r.live

\* C21: when the allocation or a re-allocation of the buffer fails inside
\* gamma_board (the first or the second realloc call here), NULL is returned
\* and no block allocated by the call is left allocated.
C21_FailedRenderFreesAll ==
    \A fail \in 1..2 : FailedRenderOf(gamma_board(g, fail))

\* The string gamma_board returns when no allocation fails, without its
\* last character.
BoardBody(gm) ==
    SubSeq(gamma_board(gm, 0).str, 1, Len(gamma_board(gm, 0).str) - 1)

\* The lines of a text in which every line is ended by a newline, without
\* their newlines.
RECURSIVE LinesFrom(_, _, _)
LinesFrom(text, i, row) ==
    IF i > Len(text)
    THEN <<>>
    ELSE IF text[i] = "\n"
    THEN <<row>> \o LinesFrom(text, i + 1, <<>>)
    ELSE LinesFrom(text, i + 1, Append(row, text[i]))

BoardLines(gm) == LinesFrom(BoardBody(gm), 1, <<>>)

\* The fields of row y from column x on, each as gamma_render_field writes
\* it in the width of its column.
RECURSIVE RowFrom(_, _, _, _)
RowFrom(gm, w, x, y) ==
    IF x = gm.width
    THEN <<>>
    ELSE gamma_render_field(gm, x, y, IF x = 0 THEN w.first_column_width
                                               ELSE w.field_width)
             \o RowFrom(gm, w, x + 1, y)

\* C22: for a game that is not NULL gamma_board returns a NUL-terminated
\* string of exactly height lines, each ended by a newline; line i (from 0)
\* renders row height - 1 - i, its fields in the order of x from 0 to
\* width - 1.
C22_BoardLayout ==
    /\ ~gamma_board(g, 0).null
    /\ gamma_board(g, 0).str[Len(gamma_board(g, 0).str)] = NUL
    /\ \A i \in 1..Len(BoardBody(g)) : BoardBody(g)[i] # NUL
    /\ BoardBody(g)[Len(BoardBody(g))] = "\n"
    /\ Len(BoardLines(g)) = g.height
    /\ \A i \in 0..(g.height - 1) :
           BoardLines(g)[i + 1]
               = RowFrom(g, gamma_rendered_fields_width(g), 0, g.height - 1 - i)

\* A board of two rows and two columns whose four fields are rendered
\* differently.
C22_Witness ==
    /\ g.height = 2
    /\ g.width = 2
    /\ Cardinality({OwnerMap(g)[c] : c \in Cells(g)}) = 4

\* The number of decimal digits of n, for n below 10^9.
DecimalWidth(n) ==
    CHOOSE k \in 1..9 : n < 10 ^ k /\ (k = 1 \/ n >= 10 ^ (k - 1))

\* W_id and W0: the digits of the largest player on the board and in
\* column 0, 1 where there is none.
WId(gm) == DecimalWidth(MaxFrom1({OwnerMap(gm)[c] : c \in NonEmpty(gm)}))

W0(gm) ==
    DecimalWidth(MaxFrom1({OwnerMap(gm)[c] : c \in {c \in NonEmpty(gm) : c[1] = 0}}))

\* The width of column x by the rule of the claim.
ColumnWidth(gm, x) ==
    IF WId(gm) = 1 THEN 1 ELSE IF x = 0 THEN W0(gm) ELSE WId(gm) + 1

\* Where column x begins in a line (from 1).
ColumnStart(gm, x) ==
    IF x = 0 THEN 1 ELSE ColumnWidth(gm, 0) + (x - 1) * ColumnWidth(gm, 1) + 1

\* The text of a field: a dot for an empty one, the decimal number of its
\* owner otherwise.
FieldText(owner) == IF owner = 0 THEN <<".">> ELSE Decimal(owner)

\* C23: with W_id = 1 every field is rendered as one character, a dot or
\* the digit of its owner; with W_id > 1 every field of the columns 1 to
\* width - 1 is rendered right-aligned in W_id + 1 characters and every
\* field of column 0 right-aligned in W0 characters.
C23_FieldWidths ==
    \A c \in Cells(g) :
        /\ Len(FieldText(OwnerMap(g)[c])) <= ColumnWidth(g, c[1])
        /\ SubSeq(BoardLines(g)[g.height - c[2]],
                  ColumnStart(g, c[1]),
                  ColumnStart(g, c[1]) + ColumnWidth(g, c[1]) - 1)
               = Padded(ColumnWidth(g, c[1]), FieldText(OwnerMap(g)[c]))
        /\ Len(BoardLines(g)[g.height - c[2]])
               = ColumnStart(g, g.width - 1) + ColumnWidth(g, g.width - 1) - 1

\* A player of three digits on the board, a player of two digits the
\* largest in column 0.
C23_Witness ==
    /\ WId(g) = 3
    /\ W0(g) = 2
    /\ g.width > 1

DigitValue(ch) == CHOOSE d \in 0..9 : DigitChar[d + 1] = ch

Flush(cur) == IF cur < 0 THEN <<>> ELSE <<cur>>

\* The fields read from a line taking a dot as an empty field and a maximal
\* run of digits as one owner; cur is the value of the run being read, -1
\* outside a run.
RECURSIVE ParseRuns(_, _, _)
ParseRuns(text, i, cur) ==
    IF i > Len(text)
    THEN Flush(cur)
    ELSE IF text[i] = "."
    THEN Flush(cur) \o <<0>> \o ParseRuns(text, i + 1, -1)
    ELSE IF text[i] = " "
    THEN Flush(cur) \o ParseRuns(text, i + 1, -1)
    ELSE ParseRuns(text, i + 1,
                   IF cur < 0 THEN DigitValue(text[i])
                              ELSE cur * 10 + DigitValue(text[i]))

\* The fields read from a text taking every character as one field.
ParseCharacters(text) ==
    [i \in 1..Len(text) |-> IF text[i] = "." THEN 0 ELSE DigitValue(text[i])]

\* The owners of the board as rows from the top, each from column 0.
OwnerGrid(gm) ==
    [i \in 1..gm.height |->
        [x \in 1..gm.width |-> OwnerMap(gm)[<<x - 1, gm.height - i>>]]]

\* C24 as stated: reading the string of gamma_board back, a dot as an
\* empty field and every maximal run of digits as one owner, gives height
\* rows of width fields with the owner of every field.
C24_RoundTripRuns ==
    /\ Len(BoardLines(g)) = g.height
    /\ \A i \in 1..g.height :
           ParseRuns(BoardLines(g)[i], 1, -1) = OwnerGrid(g)[i]

\* C24, amended: the string read back gives the owner of every field, in
\* height rows of width fields, when every character is read as one field
\* if W_id = 1 and every maximal run of digits as one owner if W_id > 1.
C24_RoundTrip ==
    /\ Len(BoardLines(g)) = g.height
    /\ \A i \in 1..g.height :
           (IF WId(g) = 1
            THEN ParseCharacters(BoardLines(g)[i])
            ELSE ParseRuns(BoardLines(g)[i], 1, -1)) = OwnerGrid(g)[i]

\* Two players of two digits and more side by side, away from column 0.
C24_Witness ==
    \E c \in Cells(g), d \in Cells(g) :
        /\ c[1] >= 1
        /\ d = <<c[1] + 1, c[2]>>
        /\ OwnerMap(g)[c] >= 10
        /\ OwnerMap(g)[d] >= 10

\* The player can be given the turn: gamma_free_fields is positive or
\* gamma_golden_possible is true.
CanBeGivenTurn(gm, p) ==
    gamma_free_fields(gm, p) > 0 \/ gamma_golden_possible(gm, p)

\* The players in cyclic order after player p, p itself last.
CyclicAfter(gm, p) ==
    [i \in 1..gm.players_num |-> ((p - 1 + i) % gm.players_num) + 1]

\* The places in CyclicAfter(gm, p) of the players that can be given the
\* turn.
TurnPlaces(gm, p) ==
    {i \in 1..gm.players_num : CanBeGivenTurn(gm, CyclicAfter(gm, p)[i])}

FirstPlace(S) == CHOOSE i \in S : \A j \in S : i <= j

\* A round of run_io_loop ends a turn.
TurnEnds == pc = "run_io_loop" /\ advance_player'

TurnPassedOn(gm, p, places) ==
    IF places = {}
    THEN pc' = "gamma_delete"
    ELSE /\ pc' = "run_io_loop"
         /\ current_player' = CyclicAfter(gm, p)[FirstPlace(places)]

\* C25: when a round of the interactive loop ends a turn, the turn goes to
\* the first player in cyclic order after the current one, the current one
\* last, with gamma_free_fields > 0 or gamma_golden_possible, and the game
\* ends iff there is no such player; advance_player_number examines at most
\* players_num + 1 players, whichever player it starts from.
C25_AdvancePlayer ==
    /\ [][TurnEnds => TurnPassedOn(g', current_player,
                                   TurnPlaces(g', current_player))]_vars
    /\ [](pc = "run_io_loop" =>
            \A p \in ValidPlayers(g) :
                advance_player_number(g, p).checks <= g.players_num + 1)

\* A turn has ended and the player after the one now on turn cannot be
\* given it: that player will be passed over.
C25_Witness ==
    /\ pc = "run_io_loop"
    /\ advance_player
    /\ g.players_num > 2
    /\ ~CanBeGivenTurn(g, CyclicAfter(g, current_player)[1])
    /\ CanBeGivenTurn(g, CyclicAfter(g, current_player)[2])

\* No call of gamma_move or gamma_golden_move on the game can succeed.
NoMovePossible(gm) ==
    \A p \in ValidPlayers(gm) : \A c \in Cells(gm) :
        /\ ~gamma_move(gm, p, c[1], c[2]).ret
        /\ ~gamma_golden_move(gm, p, c[1], c[2]).ret

\* C26: when a round of the interactive loop has ended a turn and no player
\* has a field where gamma_move or gamma_golden_move would succeed, the
\* loop ends the game: it does not go on with some player on turn.
C26_GameEndsWhenStuck ==
    [][(TurnEnds /\ NoMovePossible(g')) => pc' # "run_io_loop"]_vars

\* The game has ended and its summary has been printed: the board, then
\* the announcement.
SummaryPrinted == pc = "gamma_delete" /\ error = "NO_ERROR"

\* The players with the most fields.
Leaders(gm) ==
    {p \in ValidPlayers(gm) :
        \A q \in ValidPlayers(gm) :
            gamma_busy_fields(gm, q) <= gamma_busy_fields(gm, p)}

AnnouncedAs(gm, announcement) ==
    /\ \A w \in ValidPlayers(gm) :
           (announcement[2] = "wins" /\ announcement[3] = w)
               <=> \A q \in ValidPlayers(gm) \ {w} :
                       gamma_busy_fields(gm, w) > gamma_busy_fields(gm, q)
    /\ announcement[2] = "wins" =>
           announcement[4] = gamma_busy_fields(gm, announcement[3])
    /\ announcement[2] = "tie" <=> Cardinality(Leaders(gm)) >= 2

C28_BatchExit ==
    [][pc = "run_batch_mode" =>
          /\ pc' # "run_batch_mode"
                 <=> text_input_read_next_command(
                         stdin, BATCH_COMMAND_IDENTIFIERS).error
                         = "ENCOUNTERED_EOF"
          /\ pc' = "run_batch_mode" => Len(stdin') < Len(stdin)]_vars

\* A round of the batch loop has reported an error and the loop is still
\* running, with input left to read.
C28_Witness ==
    /\ pc = "run_batch_mode"
    /\ error = "INVALID_VALUE"
    /\ out # <<>>
    /\ out[1][2] = "ERROR"
    /\ stdin # <<>>

\* C29: when create_game_struct has read a valid game-creation line and
\* gamma_new has returned NULL, main exits with code 1 and no further line
\* is read.
C29_MemoryErrorExits ==
    [][(pc = "create_game_struct" /\ error' = "MEMORY_ERROR")
           => (pc' = "exit" /\ exit_code' = 1)]_vars

\* The representative fu_find returns for every field.
Representatives(gm) == [c \in Cells(gm) |-> fu_find(gm.board, c).root]

\* The sets of the find-union structure are the areas: two occupied fields
\* have one representative iff one player owns both and they are joined by
\* a path of that player's fields; an empty field is alone in its set.
SetsAreAreas(owner, rep) ==
    /\ \A c \in DOMAIN owner : \A d \in DOMAIN owner :
           (owner[c] # 0 /\ owner[d] # 0) =>
               (rep[c] = rep[d]
                    <=> /\ owner[c] = owner[d]
                        /\ d \in Flood(OwnedIn(owner, owner[c]), {c}))
    /\ \A c \in DOMAIN owner :
           owner[c] = 0 => \A d \in DOMAIN owner : (rep[d] = c <=> d = c)

\* C30: after every completed operation two occupied fields have the same
\* fu_find representative iff they have the same owner and are joined by a
\* 4-connected path of that owner's fields, and every empty field is a set
\* of its own.
C30_UnionFind == ~g.null => SetsAreAreas(OwnerMap(g), Representatives(g))

\* A golden move has been made and a player owns two fields that are not
\* joined, next to an empty field.
C30_Witness ==
    /\ ~g.null
    /\ \E p \in ValidPlayers(g) : g.players[player_index(g, p)].golden_move_done
    /\ \E p \in ValidPlayers(g) : NumAreas(g, p) >= 2
    /\ \E c \in Cells(g) : OwnerMap(g)[c] = 0

\* The stored border_empty_fields counter of player q.
border_empty_fields(gm, q) == gm.players[player_index(gm, q)].border_empty_fields

OwnsNeighbour(gm, q, x, y) == \E d \in Owned(gm, q) : Adjacent(d, <<x, y>>)

MoveBorderOf(gm, c, r) ==
    r.ret =>
        \A q \in ValidPlayers(gm) \ {c.player} :
            border_empty_fields(r.g, q) =
                border_empty_fields(gm, q)
                    - (IF OwnsNeighbour(gm, q, c.x, c.y) THEN 1 ELSE 0)

\* C31: a successful gamma_move(g, p, x, y) takes exactly 1 from
\* border_empty_fields of every other player q that owns at least one of
\* the four neighbours of (x, y), however many of them q owns, and leaves
\* border_empty_fields of every other player q != p as it was.
C31_MoveBorderDecrement ==
    \A c \in Calls(g) : MoveBorderOf(g, c, MoveOf(g, c))

\* A move that succeeds between two fields of one other player.
C31_Witness ==
    \E c \in Calls(g) :
        /\ MoveOf(g, c).ret
        /\ \E q \in ValidPlayers(g) \ {c.player} :
               Cardinality({d \in Owned(g, q) : Adjacent(d, <<c.x, c.y>>)}) >= 2

\* The stored areas counter of player p.
areas(gm, p) == gm.players[player_index(gm, p)].areas

\* The areas of p with a field next to (x, y).
AdjacentAreas(gm, p, x, y) ==
    {A \in AreasIn(OwnerMap(gm), p) : \E d \in A : Adjacent(d, <<x, y>>)}

MoveAreasOf(gm, c, r) ==
    r.ret =>
        /\ Cardinality(AdjacentAreas(gm, c.player, c.x, c.y)) \in 0..4
        /\ areas(r.g, c.player) =
               areas(gm, c.player) + 1
                   - Cardinality(AdjacentAreas(gm, c.player, c.x, c.y))
        /\ areas(r.g, c.player) = areas(gm, c.player) + 1
               <=> ~OwnsNeighbour(gm, c.player, c.x, c.y)

\* C32: a successful gamma_move(g, p, x, y) changes players[p].areas by
\* exactly 1 - k, where k (0 <= k <= 4) is the number of distinct areas of p
\* that had a field next to (x, y) before the move; the counter grows, by 1,
\* only when no neighbour of (x, y) belongs to p.
C32_MoveAreas ==
    \A c \in Calls(g) : MoveAreasOf(g, c, MoveOf(g, c))

\* A move that succeeds between two areas of the mover and joins them.
C32_Witness ==
    \E c \in Calls(g) :
        /\ MoveOf(g, c).ret
        /\ Cardinality(AdjacentAreas(g, c.player, c.x, c.y)) = 2
        /\ areas(MoveOf(g, c).g, c.player) = areas(g, c.player) - 1

\* What a successful golden move of p on the field (x, y) of q leaves alone.
GoldenFrame(gm, after, p, q, x, y) ==
    /\ \A r \in ValidPlayers(gm) \ {p, q} :
           /\ after.players[player_index(gm, r)].occupied_fields =
                  gm.players[player_index(gm, r)].occupied_fields
           /\ after.players[player_index(gm, r)].areas =
                  gm.players[player_index(gm, r)].areas
           /\ after.players[player_index(gm, r)].border_empty_fields =
                  gm.players[player_index(gm, r)].border_empty_fields
           /\ after.players[player_index(gm, r)].golden_move_done =
                  gm.players[player_index(gm, r)].golden_move_done
    /\ \A d \in Cells(gm) \ {<<x, y>>} : OwnerMap(after)[d] = OwnerMap(gm)[d]
    /\ after.players[player_index(gm, q)].golden_move_done =
           gm.players[player_index(gm, q)].golden_move_done

GoldenFrameOf(gm, c, r) ==
    r.ret => GoldenFrame(gm, r.g, c.player, OwnerMap(gm)[<<c.x, c.y>>], c.x, c.y)

\* C33: a successful gamma_golden_move(g, p, x, y) on a field of q leaves
\* occupied_fields, areas, border_empty_fields and golden_move_done of every
\* third player unchanged, changes the owner of no field other than (x, y),
\* and leaves golden_move_done of q unchanged.
C33_GoldenFrame ==
    \A c \in Calls(g) : GoldenFrameOf(g, c, GoldenMoveOf(g, c))

\* A golden move that succeeds on a field of q while a third player holds a
\* field next to an empty one, and neither q nor the third player has made
\* a golden move.
C33_Witness ==
    \E c \in Calls(g) :
        /\ GoldenMoveOf(g, c).ret
        /\ \E r \in ValidPlayers(g) \ {c.player, OwnerMap(g)[<<c.x, c.y>>]} :
               /\ border_empty_fields(g, r) > 0
               /\ ~g.players[player_index(g, r)].golden_move_done
        /\ ~g.players[player_index(g, OwnerMap(g)[<<c.x, c.y>>])].golden_move_done

\* C34: in every reachable state the empty flag of a field is set exactly
\* when the field's player is 0, and the player of every field that is not
\* empty is a player number from 1 to players_num.
C34_EmptyIffNoOwner ==
    ~g.null =>
        \A c \in Cells(g) :
            /\ g.board[c[2]][c[1]].empty <=> g.board[c[2]][c[1]].player = 0
            /\ ~g.board[c[2]][c[1]].empty =>
                   g.board[c[2]][c[1]].player \in 1..g.players_num

\* A board with an empty field, a field taken by a move and a field taken
\* by a golden move.
C34_Witness ==
    /\ ~g.null
    /\ \E c \in Cells(g) : g.board[c[2]][c[1]].empty
    /\ \E p \in ValidPlayers(g) :
           /\ golden_count[p] = 1
           /\ Cardinality(Owned(g, p)) = 1
    /\ \E q \in ValidPlayers(g) : ~g.players[player_index(g, q)].golden_move_done
                                    /\ Owned(g, q) # {}

\* The step is a gamma_golden_move of the new owner on the field c that
\* returned true.
TakenByGoldenMove(c) ==
    /\ gamma_golden_move(g, OwnerMap(g')[c], c[1], c[2]).ret
    /\ g' = gamma_golden_move(g, OwnerMap(g')[c], c[1], c[2]).g

\* A step keeps every occupied field occupied, changes the owner of an
\* occupied field only by a successful golden move, and does not lower the
\* total.
KeepsOccupied ==
    /\ \A c \in Cells(g) :
           OwnerMap(g)[c] # 0 =>
               /\ OwnerMap(g')[c] # 0
               /\ OwnerMap(g')[c] # OwnerMap(g)[c] => TakenByGoldenMove(c)
    /\ g'.occupied_fields >= g.occupied_fields

MoveAddsOne(gm, r) == r.ret => r.g.occupied_fields = gm.occupied_fields + 1

\* C35: no operation empties a field: a field once occupied is occupied in
\* every later state, its owner changes only through a successful golden
\* move; the total occupied_fields never decreases, grows by exactly 1 on
\* each successful gamma_move and never exceeds width * height.
C35_NeverEmptied ==
    /\ [][KeepsOccupied]_vars
    /\ [](/\ \A c \in Calls(g) : MoveAddsOne(g, MoveOf(g, c))
          /\ g.occupied_fields <= g.width * g.height)

\* A full board of at least three fields on which a golden move was made.
C35_Witness ==
    /\ g.occupied_fields = g.width * g.height
    /\ g.width * g.height >= 3
    /\ \E p \in ValidPlayers(g) : golden_count[p] = 1

\* The field reached from c by following parent n times.
RECURSIVE Climb(_, _, _)
Climb(board, c, n) ==
    IF n = 0 THEN c ELSE Climb(board, board[c[2]][c[1]].parent, n - 1)

\* The end of the parent chain of c on a board of gm's size.
Root(gm, board, c) == Climb(board, c, gm.width * gm.height)

\* The sets of the find-union structure: the fields with one end of chain.
SetsOfRoots(roots) == {{p[1] : p \in {q \in roots : q[2] = r[2]}} : r \in roots}

Sets(gm, board) ==
    UNION {SetsOfRoots(roots) :
              roots \in {{<<c, Root(gm, board, c)>> : c \in Cells(gm)}}}

SetOf(sets, c) == CHOOSE S \in sets : c \in S

\* The sets once the sets A and B are merged.
Merged(sets, A, B) == (sets \ {A, B}) \cup {A \cup B}

\* fu_union(a, b) returned ret: the sets before and after the call.  Two
\* fields are in one set afterwards exactly when they were before or one
\* was with a and the other with b: the sets afterwards are the sets
\* before, with the sets of a and of b replaced by their union.
UnionSets(before, after, a, b, ret) ==
    /\ ret <=> SetOf(before, a) # SetOf(before, b)
    /\ SetOf(after, a) = SetOf(after, b)
    /\ after = Merged(before, SetOf(before, a), SetOf(before, b))

\* u is what fu_union(a, b) returned on the board of gm.
UnionOf(gm, before, a, b, u) ==
    \A after \in {Sets(gm, u.board)} : UnionSets(before, after, a, b, u.ret)

UnionOfAll(gm, before) ==
    \A a \in Cells(gm) : \A b \in Cells(gm) :
        \A u \in {fu_union(gm.board, a, b)} : UnionOf(gm, before, a, b, u)

\* C36: fu_union(a, b) returns true iff a and b had different
\* representatives before the call; after it a and b have one
\* representative, and two fields are in one set exactly when they were in
\* one set before or one was in the set of a and the other in the set of b.
C36_Union == \A before \in {Sets(g, g.board)} : UnionOfAll(g, before)

\* Two sets of more than one field, and a field of each that is not the
\* representative: fu_union on the two merges the sets.
C36_Witness ==
    \E a \in Cells(g) : \E b \in Cells(g) :
        /\ g.board[a[2]][a[1]].parent # a
        /\ g.board[b[2]][b[1]].parent # b
        /\ fu_union(g.board, a, b).ret

\* Every parent chain ends in a field that is its own parent.
Forest(gm, board) ==
    \A c \in Cells(gm) :
        \A r \in {Root(gm, board, c)} : board[r[2]][r[1]].parent = r

\* The fields on the parent chain of c, c included.
Ancestors(gm, board, c) == {Climb(board, c, k) : k \in 0..(gm.width * gm.height)}

\* f is what fu_find(c) returned on the board of gm: the end of the chain
\* of c, every field re-parented to a field of its own chain, and the sets
\* as they were.
FindOf(gm, c, f) ==
    /\ f.root = Root(gm, gm.board, c)
    /\ \A d \in Cells(gm) :
           f.board[d[2]][d[1]].parent \in Ancestors(gm, gm.board, d)
    /\ \A d \in Cells(gm) : Root(gm, f.board, d) = Root(gm, gm.board, d)

\* C37: in every reachable state the parent pointers form a forest, every
\* chain of parents ending in a self-parented root, so that fu_find
\* terminates; the path halving of fu_find re-parents fields to their own
\* ancestors only and changes the representative of no field.
C37_ForestAndHalving ==
    /\ Forest(g, g.board)
    /\ \A c \in Cells(g) : \A f \in {fu_find(g.board, c)} : FindOf(g, c, f)

\* A field whose parent is not a root: fu_find on it re-parents it.
C37_Witness ==
    \E c \in Cells(g) :
        /\ g.board[c[2]][c[1]].parent # Root(g, g.board, c)
        /\ fu_find(g.board, c).board # g.board
        /\ fu_find(g.board, c).board[c[2]][c[1]].parent = Root(g, g.board, c)

\* The state of a game: its dimensions and limits, the owners, the
\* counters and flags, and the sets of the find-union structure (a rejected
\* golden move that re-indexed twice leaves them in place, under parents
\* and ranks built anew).
GameState(gm) ==
    [width |-> gm.width, height |-> gm.height, players_num |-> gm.players_num,
     max_areas |-> gm.max_areas, observable |-> Observable(gm),
     sets |-> Sets(gm, gm.board)]

SkipKeys == {"c", "C"}

GoldenKeys == {"g", "G"}

\* The keys of the key presses: every first character a round can read.
Keys == {Head(k) : k \in (KeyPresses \cup BrokenKeyPresses) \ {<<>>}}
            \ {END_OF_TRANSMISSION}

\* The call respond_to_key makes on a key, and the answer "no call" for a
\* key that makes none.
KeyCall(key, gm, fx, fy, player) ==
    IF key = " " THEN gamma_move(gm, player, fx, fy)
    ELSE IF key \in GoldenKeys THEN gamma_golden_move(gm, player, fx, fy)
    ELSE [g |-> gm, ret |-> FALSE, site |-> "no call"]

\* r is what respond_to_key left on key, called being the call it made.
KeyEffect(key, gm, called, r) ==
    /\ r.advance_player <=> (called.ret \/ key \in SkipKeys)
    /\ (called.site # "no call" /\ ~called.ret) =>
           /\ GameState(r.g) = GameState(gm)
           /\ r.error_message # ""
    /\ called.site = "no call" => r.g = gm

KeyEffects(gm, fx, fy, player) ==
    \A key \in Keys : \A in \in {<<>>, <<OPENING_SQUARE_BRACKET, ARROW_UP>>} :
        KeyEffect(key, gm, KeyCall(key, gm, fx, fy, player),
                  respond_to_key(key, gm, in, fx, fy, player))

\* A round of the loop: the player changes only when respond_to_key asked
\* for it, and the game changes only by the call of the key.
RoundKeepsTurn ==
    pc = "run_io_loop" =>
        /\ current_player' # current_player => advance_player'
        /\ ~advance_player' =>
               /\ GameState(g') = GameState(g)
               /\ current_player' = current_player
        /\ advance_player' =>
               \/ g' = g
               \/ \E r \in {gamma_move(g, current_player, field_x, field_y)} :
                      r.ret /\ g' = r.g
               \/ \E r \in {gamma_golden_move(g, current_player, field_x, field_y)} :
                      r.ret /\ g' = r.g

ArrowTarget(gm, key, fx, fy) ==
    IF key = ARROW_UP
    THEN <<fx, IF fy = gm.height - 1 THEN fy ELSE fy + 1>>
    ELSE IF key = ARROW_DOWN
    THEN <<fx, IF fy = 0 THEN fy ELSE fy - 1>>
    ELSE IF key = ARROW_RIGHT
    THEN <<IF fx = gm.width - 1 THEN fx ELSE fx + 1, fy>>
    ELSE <<IF fx = 0 THEN fx ELSE fx - 1, fy>>

\* r is what respond_to_key left on the sequence of an arrow key.
ArrowEffect(gm, key, fx, fy, r) ==
    /\ <<r.field_x, r.field_y>> = ArrowTarget(gm, key, fx, fy)
    /\ r.stdin = <<>>

\* C39: throughout the interactive loop the cursor is on the board,
\* 0 <= field_x < width and 0 <= field_y < height; an arrow key moves it by
\* exactly one field in its direction (up raises y, right raises x) or
\* leaves it in place at the edge of the board, so that every move made
\* from the cursor has coordinates in range.
C39_CursorOnBoard ==
    pc = "run_io_loop" =>
        /\ field_x \in 0..(g.width - 1)
        /\ field_y \in 0..(g.height - 1)
        /\ is_within_board(g, field_x, field_y)
        /\ \A key \in {ARROW_UP, ARROW_DOWN, ARROW_RIGHT, ARROW_LEFT} :
               ArrowEffect(g, key, field_x, field_y,
                           respond_to_key(ESCAPE, g,
                                          <<OPENING_SQUARE_BRACKET, key>>,
                                          field_x, field_y, current_player))

\* The cursor has been taken to the far corner of a board of two rows and
\* two columns at least.
C39_Witness ==
    /\ pc = "run_io_loop"
    /\ g.width >= 2 /\ g.height >= 2
    /\ field_x = g.width - 1
    /\ field_y = g.height - 1

\* The input holds a whole line, and what follows its first line.
HasLine(in) == \E i \in 1..Len(in) : in[i] = "\n"

RECURSIVE AfterLine(_)
AfterLine(in) == IF Head(in) = "\n" THEN Tail(in) ELSE AfterLine(Tail(in))

\* r is what the command reader returned on the input in.
ReadOneLine(in, r) ==
    HasLine(in) => (r.error # "ENCOUNTERED_EOF" /\ r.stdin = AfterLine(in))

\* The numbers written with OK and ERROR.
LineNumbers(written) ==
    {written[i][3] : i \in {j \in 1..Len(written) : written[j][2] \in {"OK", "ERROR"}}}

\* A round of create_game_struct or of run_batch_mode: the line counter,
\* which starts at 0, goes up by one, one line of the input is taken, and
\* the number written is the counter, the index of the line just taken.
RoundTakesLine ==
    pc \in {"create_game_struct", "run_batch_mode"} =>
        /\ line' = line + 1
        /\ HasLine(stdin) => stdin' = AfterLine(stdin)
        /\ LineNumbers(out') \subseteq {line'}

\* C40: every call of the command reader that does not hit the end of the
\* input consumes exactly one line of the input, up to and including its
\* newline, whether the line is a valid command, an ignored empty or '#'
\* line, or malformed in any way; so the number written with each ERROR and
\* with OK is the 1-based index of the line concerned, the lines read
\* before batch mode started counted in.
C40_OneLinePerCall ==
    /\ [][RoundTakesLine]_vars
    /\ [](\A allowed \in {GAME_MODE_IDENTIFIERS, BATCH_COMMAND_IDENTIFIERS} :
              ReadOneLine(stdin, text_input_read_next_command(stdin, allowed)))

\* The third line of the input, in batch mode, was malformed: ERROR 3 was
\* written and the input is at its end.
C40_Witness ==
    /\ pc = "run_batch_mode"
    /\ line = 3
    /\ out = <<<<"stderr", "ERROR", 3>>>>
    /\ stdin = <<>>

====
